---- MODULE Spec2Model ----
(***************************************************************************)
(* Financial-Document-Dashboard: the extraction-and-consolidation          *)
(* pipeline of app/financial_parsing (chunker, merge, parse-job            *)
(* controller, normalization, alignment, review/edit workflow).            *)
(*                                                                         *)
(* Python's None is the empty tuple and a present value v is <<v>>, so a   *)
(* nullable column holds a tuple of length 0 or 1.                         *)
(***************************************************************************)
EXTENDS Integers, Sequences, FiniteSets, TLC

VARIABLES
    \* _extract_chunks
    total_pages, chunk_size, overlap, chunks, chunk_pc,
    \* _merge_statements
    all_results, merged, merge_pc,
    \* normalize_label
    raw_label, canonical, norm_pc,
    \* align_line_items_across_periods, build_comparison_dataset
    align_statements, aligned, align_pc, comparison,
    \* database tables: financial_statements, line_items, edit_logs
    statements, line_items, edit_logs,
    \* datetime.utcnow(), and the service call made last with its outcome
    clock, last_call,
    \* the edit_line_item requests being served: what each has read so far
    edits,
    \* settings.ANTHROPIC_API_KEY, the parse_jobs table, the trigger requests
    \* that passed validation with their background tasks, and the trigger
    \* request validated last with its outcome
    api_key, jobs, tasks, last_trigger

chunkVars == <<total_pages, chunk_size, overlap, chunks, chunk_pc>>

mergeVars == <<all_results, merged, merge_pc>>

normVars == <<raw_label, canonical, norm_pc>>

alignVars == <<align_statements, aligned, align_pc, comparison>>

dbVars == <<statements, line_items, edit_logs>>

callVars == <<clock, last_call, edits>>

jobVars == <<api_key, jobs, tasks, last_trigger>>

vars == <<chunkVars, mergeVars, normVars, alignVars, dbVars, callVars, jobVars>>

None == <<>>

Some(v) == <<v>>

Min(a, b) == IF a < b THEN a ELSE b

CharAt(s, i) == SubSeq(s, i, i)

Digits == "0123456789"

\* str(n) of an int n >= 0
RECURSIVE IntStr(_)
IntStr(n) ==
    IF n < 10 THEN CharAt(Digits, n + 1)
    ELSE IntStr(n \div 10) \o CharAt(Digits, (n % 10) + 1)

(***************************************************************************)
(* Chunker: _extract_chunks (service.py 77-120).                           *)
(***************************************************************************)

\* Largest page count, window size of the chunker inputs that are enumerated.
MaxPages == 9

MaxChunkSize == 4

\* One pass of the body of `while start < total_pages` and the passes after it.
\* start is the 0-based page index the code keeps; a chunk records the 1-based
\* start_page and the inclusive end_page.
RECURSIVE ChunkLoop_NoOverlap(_, _, _, _, _)
ChunkLoop_NoOverlap(start, P, C, O, acc) ==
    IF ~(start < P) THEN acc
    ELSE LET end == Min(start + C, P)
             out == Append(acc, [start_page |-> start + 1, end_page |-> end])
         IN  IF end >= P THEN out
             ELSE ChunkLoop_NoOverlap(end, P, C, O, out)

RECURSIVE ChunkLoop(_, _, _, _, _)
ChunkLoop(start, P, C, O, acc) ==
    IF ~(start < P) THEN acc
    ELSE LET end == Min(start + C, P)
             out == Append(acc, [start_page |-> start + 1, end_page |-> end])
         IN  IF end >= P THEN out
             ELSE ChunkLoop(end - O, P, C, O, out)

_extract_chunks(P, C, O) == ChunkLoop(0, P, C, O, <<>>)

ChunkInit ==
    /\ total_pages \in 0..MaxPages
    /\ chunk_size \in 1..MaxChunkSize
    /\ overlap \in 0..(chunk_size - 1)
    /\ chunks = <<>>
    /\ chunk_pc = "call"

ChunkIdle ==
    /\ total_pages = 0
    /\ chunk_size = 1
    /\ overlap = 0
    /\ chunks = <<>>
    /\ chunk_pc = "idle"

ExtractChunks ==
    /\ chunk_pc = "call"
    /\ chunks' = _extract_chunks(total_pages, chunk_size, overlap)
    /\ chunk_pc' = "done"
    /\ UNCHANGED <<total_pages, chunk_size, overlap>>
    /\ UNCHANGED <<mergeVars, normVars, alignVars, dbVars, callVars, jobVars>>

Pages(c) == c.start_page .. c.end_page

\* C1: for P >= 1, C >= 1, 0 <= O < C the windows of _extract_chunks start at
\* page 1, cover exactly 1..P, every window but the last has exactly C pages,
\* and each window shares exactly O pages with the window that follows it.
C1_ChunkWindows ==
    (chunk_pc = "done" /\ total_pages >= 1) =>
        /\ Len(chunks) >= 1
        /\ chunks[1].start_page = 1
        /\ UNION {Pages(chunks[i]) : i \in 1..Len(chunks)} = 1..total_pages
        /\ \A i \in 1..(Len(chunks) - 1) :
              /\ Cardinality(Pages(chunks[i])) = chunk_size
              /\ Cardinality(Pages(chunks[i]) \cap Pages(chunks[i + 1])) = overlap

C1_Witness ==
    /\ chunk_pc = "done"
    /\ overlap >= 1
    /\ Len(chunks) >= 3
    /\ Cardinality(Pages(chunks[Len(chunks)])) < chunk_size

(***************************************************************************)
(* Merge engine: _merge_statements (service.py 163-172).                   *)
(***************************************************************************)

\* Most chunk results, and most statements over all of them, in a merge input.
MaxMergeChunks == 3

MaxMergeStmts == 3

MergeKeys ==
    {<<"income_statement", "Q1 2023">>, <<"income_statement", "Q2 2023">>,
     <<"balance_sheet", "Q1 2023">>}

\* The "line_items" of an extracted statement hold a list of this many items,
\* or the key is missing (None).
LineItemCounts == {2, 3, 5}

StmtShapes ==
    (MergeKeys \X {Some(n) : n \in LineItemCounts})
        \cup {<<<<"income_statement", "Q1 2023">>, None>>}

\* The statement dict of shape sh found at position j of chunk c's result. Its
\* source_pages and its items' values are its own, so that two candidates of
\* one key and one count are still two different dicts.
StmtDict(sh, c, j) ==
    [statement_type |-> sh[1][1],
     period |-> sh[1][2],
     source_pages |-> IntStr(c),
     line_items |->
        IF sh[2] = None THEN None
        ELSE Some([i \in 1..sh[2][1] |->
                     [label |-> IF i = 1 THEN "Revenue" ELSE "Other",
                      sort_order |-> i - 1, value |-> 10 * c + j]])]

\* The lists of at most b statement shapes.
ShapeLists(b) == UNION {[1..k -> StmtShapes] : k \in 0..b}

\* stmt.get("line_items", [])
GetLineItems(stmt) == IF stmt.line_items = None THEN <<>> ELSE stmt.line_items[1]

StmtKey(stmt) == <<stmt.statement_type, stmt.period>>

\* best is the dict of the code: its entries in insertion order.
BestGet(best, key) ==
    IF \E k \in 1..Len(best) : best[k].key = key
    THEN CHOOSE k \in 1..Len(best) : best[k].key = key
    ELSE 0

MergeOne_LastOnTies(best, stmt) ==
    LET k == BestGet(best, StmtKey(stmt))
    IN  IF k = 0 THEN Append(best, [key |-> StmtKey(stmt), stmt |-> stmt])
        ELSE IF Len(GetLineItems(stmt)) >= Len(GetLineItems(best[k].stmt))
             THEN [best EXCEPT ![k].stmt = stmt]
             ELSE best

\* The body of the inner loop: lines 168-171.
MergeOne(best, stmt) ==
    LET k == BestGet(best, StmtKey(stmt))
    IN  IF k = 0 THEN Append(best, [key |-> StmtKey(stmt), stmt |-> stmt])
        ELSE IF Len(GetLineItems(stmt)) > Len(GetLineItems(best[k].stmt))
             THEN [best EXCEPT ![k].stmt = stmt]
             ELSE best

RECURSIVE MergeLoop(_, _, _, _)
MergeLoop(results, c, j, best) ==
    IF c > Len(results) THEN best
    ELSE IF j > Len(results[c]) THEN MergeLoop(results, c + 1, 1, best)
    ELSE MergeLoop(results, c, j + 1, MergeOne(best, results[c][j]))

_merge_statements(results) ==
    LET best == MergeLoop(results, 1, 1, <<>>)
    IN  [k \in 1..Len(best) |-> best[k].stmt]

MergeInit ==
    /\ all_results = <<>>
    /\ merged = <<>>
    /\ merge_pc = "collect"

MergeIdle ==
    /\ all_results = <<>>
    /\ merged = <<>>
    /\ merge_pc = "idle"

RECURSIVE SumLen(_)
SumLen(results) == IF results = <<>> THEN 0 ELSE Len(Head(results)) + SumLen(Tail(results))

\* all_results.append(result) of run_parsing (line 191): one more chunk's
\* result, any list of statements within the bounds.
CollectResult ==
    /\ merge_pc = "collect"
    /\ Len(all_results) < MaxMergeChunks
    /\ \E cr \in ShapeLists(MaxMergeStmts - SumLen(all_results)) :
          all_results' =
              Append(all_results,
                     [j \in 1..Len(cr) |-> StmtDict(cr[j], Len(all_results) + 1, j)])
    /\ UNCHANGED <<merged, merge_pc>>
    /\ UNCHANGED <<chunkVars, normVars, alignVars, dbVars, callVars, jobVars>>

MergeStatements ==
    /\ merge_pc = "collect"
    /\ merged' = _merge_statements(all_results)
    /\ merge_pc' = "done"
    /\ UNCHANGED all_results
    /\ UNCHANGED <<chunkVars, normVars, alignVars, dbVars, callVars, jobVars>>

\* The input statements in the order the loops meet them.
Positions(results) ==
    UNION {{<<c, j>> : j \in 1..Len(results[c])} : c \in 1..Len(results)}

Before(p, q) == p[1] < q[1] \/ (p[1] = q[1] /\ p[2] < q[2])

\* C2: _merge_statements returns exactly one statement per distinct
\* (statement_type, period) key of the input, and that statement is, unaltered,
\* the first-encountered input statement among those of its key with the
\* maximum line-item count; no output mixes line items of two candidates.
C2_MergeKeepsFirstLargest ==
    merge_pc = "done" =>
        LET pos == Positions(all_results)
            at(p) == all_results[p[1]][p[2]]
            n(p) == Len(GetLineItems(at(p)))
        IN  /\ {StmtKey(merged[k]) : k \in 1..Len(merged)} = {StmtKey(at(p)) : p \in pos}
            /\ \A k1, k2 \in 1..Len(merged) :
                  StmtKey(merged[k1]) = StmtKey(merged[k2]) => k1 = k2
            /\ \A k \in 1..Len(merged) :
                  \E p \in pos :
                      /\ merged[k] = at(p)
                      /\ \A q \in pos :
                            StmtKey(at(q)) = StmtKey(at(p)) =>
                                \/ n(q) < n(p)
                                \/ (n(q) = n(p) /\ ~Before(q, p))

\* Counts [2, 5, 3] of one key across three chunks merge to the 5-item one.
C2_Witness ==
    /\ merge_pc = "done"
    /\ Len(all_results) = 3
    /\ \A c \in 1..3 : Len(all_results[c]) = 1
    /\ \A c \in 1..3 : StmtKey(all_results[c][1]) = <<"income_statement", "Q1 2023">>
    /\ <<Len(GetLineItems(all_results[1][1])), Len(GetLineItems(all_results[2][1])),
         Len(GetLineItems(all_results[3][1]))>> = <<2, 5, 3>>
    /\ merged = <<all_results[2][1]>>

(***************************************************************************)
(* Normalization engine: LABEL_MAP and normalize_label                     *)
(* (consolidation/normalization.py 12-118).                                *)
(***************************************************************************)

\* lowercase substring -> canonical label, in registration (dict) order.
LABEL_MAP == <<
    <<"total revenue", "Total Revenue">>,
    <<"net revenue", "Total Revenue">>,
    <<"revenue", "Revenue">>,
    <<"sales", "Revenue">>,
    <<"net sales", "Revenue">>,
    <<"cost of revenue", "Cost of Revenue">>,
    <<"cost of goods sold", "Cost of Revenue">>,
    <<"cost of sales", "Cost of Revenue">>,
    <<"cogs", "Cost of Revenue">>,
    <<"gross profit", "Gross Profit">>,
    <<"gross margin", "Gross Profit">>,
    <<"research and development", "Research & Development">>,
    <<"r&d", "Research & Development">>,
    <<"selling, general", "Selling, General & Administrative">>,
    <<"sg&a", "Selling, General & Administrative">>,
    <<"selling general and administrative", "Selling, General & Administrative">>,
    <<"operating expense", "Operating Expenses">>,
    <<"total operating expense", "Total Operating Expenses">>,
    <<"operating income", "Operating Income">>,
    <<"income from operations", "Operating Income">>,
    <<"interest expense", "Interest Expense">>,
    <<"interest income", "Interest Income">>,
    <<"other income", "Other Income/Expense">>,
    <<"other expense", "Other Income/Expense">>,
    <<"income before", "Income Before Tax">>,
    <<"pretax income", "Income Before Tax">>,
    <<"provision for income tax", "Income Tax Expense">>,
    <<"income tax expense", "Income Tax Expense">>,
    <<"income tax", "Income Tax Expense">>,
    <<"net income", "Net Income">>,
    <<"net loss", "Net Income">>,
    <<"earnings per share", "Earnings Per Share">>,
    <<"basic eps", "Earnings Per Share (Basic)">>,
    <<"diluted eps", "Earnings Per Share (Diluted)">>,
    <<"depreciation and amortization", "Depreciation & Amortization">>,
    <<"depreciation", "Depreciation & Amortization">>,
    <<"ebitda", "EBITDA">>,
    <<"cash and cash equivalents", "Cash & Cash Equivalents">>,
    <<"cash and equivalents", "Cash & Cash Equivalents">>,
    <<"short-term investments", "Short-term Investments">>,
    <<"marketable securities", "Short-term Investments">>,
    <<"accounts receivable", "Accounts Receivable">>,
    <<"inventories", "Inventory">>,
    <<"inventory", "Inventory">>,
    <<"total current assets", "Total Current Assets">>,
    <<"property, plant", "Property, Plant & Equipment">>,
    <<"property and equipment", "Property, Plant & Equipment">>,
    <<"goodwill", "Goodwill">>,
    <<"intangible assets", "Intangible Assets">>,
    <<"total assets", "Total Assets">>,
    <<"accounts payable", "Accounts Payable">>,
    <<"accrued", "Accrued Liabilities">>,
    <<"short-term debt", "Short-term Debt">>,
    <<"current portion of long-term debt", "Short-term Debt">>,
    <<"total current liabilities", "Total Current Liabilities">>,
    <<"long-term debt", "Long-term Debt">>,
    <<"total liabilities", "Total Liabilities">>,
    <<"common stock", "Common Stock">>,
    <<"retained earnings", "Retained Earnings">>,
    <<"accumulated deficit", "Retained Earnings">>,
    <<"treasury stock", "Treasury Stock">>,
    <<"total stockholders", "Total Stockholders' Equity">>,
    <<"total shareholders", "Total Stockholders' Equity">>,
    <<"total equity", "Total Stockholders' Equity">>,
    <<"total liabilities and stockholders", "Total Liabilities & Equity">>,
    <<"total liabilities and shareholders", "Total Liabilities & Equity">>,
    <<"total liabilities and equity", "Total Liabilities & Equity">>,
    <<"operating activities", "Cash from Operating Activities">>,
    <<"cash from operations", "Cash from Operating Activities">>,
    <<"net cash provided by operating", "Cash from Operating Activities">>,
    <<"capital expenditure", "Capital Expenditures">>,
    <<"purchases of property", "Capital Expenditures">>,
    <<"investing activities", "Cash from Investing Activities">>,
    <<"net cash used in investing", "Cash from Investing Activities">>,
    <<"financing activities", "Cash from Financing Activities">>,
    <<"net cash provided by financing", "Cash from Financing Activities">>,
    <<"net cash used in financing", "Cash from Financing Activities">>,
    <<"dividends paid", "Dividends Paid">>,
    <<"share repurchase", "Share Repurchases">>,
    <<"stock-based compensation", "Stock-based Compensation">>,
    <<"net change in cash", "Net Change in Cash">>,
    <<"net increase", "Net Change in Cash">>,
    <<"net decrease", "Net Change in Cash">>,
    <<"beginning cash", "Beginning Cash Balance">>,
    <<"cash at beginning", "Beginning Cash Balance">>,
    <<"ending cash", "Ending Cash Balance">>,
    <<"cash at end", "Ending Cash Balance">>
>>

UpperChars == "ABCDEFGHIJKLMNOPQRSTUVWXYZ"

LowerChars == "abcdefghijklmnopqrstuvwxyz"

Whitespace == {" ", "\t"}

LowerChar(c) ==
    IF \E i \in 1..Len(UpperChars) : CharAt(UpperChars, i) = c
    THEN CharAt(LowerChars, CHOOSE i \in 1..Len(UpperChars) : CharAt(UpperChars, i) = c)
    ELSE c

\* str.lower()
RECURSIVE Lower(_)
Lower(s) == IF s = "" THEN "" ELSE LowerChar(CharAt(s, 1)) \o Lower(SubSeq(s, 2, Len(s)))

\* str.strip()
RECURSIVE Strip(_)
Strip(s) ==
    IF s = "" THEN ""
    ELSE IF CharAt(s, 1) \in Whitespace THEN Strip(SubSeq(s, 2, Len(s)))
    ELSE IF CharAt(s, Len(s)) \in Whitespace THEN Strip(SubSeq(s, 1, Len(s) - 1))
    ELSE s

\* pattern in s
Contains(pattern, s) ==
    \E i \in 1..(Len(s) - Len(pattern) + 1) : SubSeq(s, i, i + Len(pattern) - 1) = pattern

\* The loop of lines 114-117 from entry k on; best is <<best_match, best_len>>.
RECURSIVE NormalizeScan_LastOnTies(_, _, _)
NormalizeScan_LastOnTies(lower, k, best) ==
    IF k > Len(LABEL_MAP) THEN best[1]
    ELSE IF Contains(LABEL_MAP[k][1], lower) /\ Len(LABEL_MAP[k][1]) >= best[2]
         THEN NormalizeScan_LastOnTies(lower, k + 1, <<Some(LABEL_MAP[k][2]), Len(LABEL_MAP[k][1])>>)
         ELSE NormalizeScan_LastOnTies(lower, k + 1, best)

RECURSIVE NormalizeScan(_, _, _)
NormalizeScan(lower, k, best) ==
    IF k > Len(LABEL_MAP) THEN best[1]
    ELSE IF Contains(LABEL_MAP[k][1], lower) /\ Len(LABEL_MAP[k][1]) > best[2]
         THEN NormalizeScan(lower, k + 1, <<Some(LABEL_MAP[k][2]), Len(LABEL_MAP[k][1])>>)
         ELSE NormalizeScan(lower, k + 1, best)

normalize_label(raw) == NormalizeScan(Strip(Lower(raw)), 1, <<None, 0>>)

\* Raw labels: up to MaxWords of these words, space-separated, bare or padded.
MaxWords == 2

LabelWords ==
    {"Total", "Revenues", "Net Sales", "of Inventory", "Income", "Tax",
     "Operating", "Expense", "OTHER", "Misc"}

RECURSIVE Join(_)
Join(ws) == IF Len(ws) = 1 THEN ws[1] ELSE ws[1] \o " " \o Join(Tail(ws))

RawLabels(maxWords) ==
    LET bare == {Join(ws) : ws \in UNION {[1..n -> LabelWords] : n \in 1..maxWords}}
    IN  bare \cup {"  " \o l \o " \t" : l \in bare}

NormInit ==
    /\ raw_label \in RawLabels(MaxWords)
    /\ canonical = None
    /\ norm_pc = "call"

NormIdle ==
    /\ raw_label = ""
    /\ canonical = None
    /\ norm_pc = "idle"

NormalizeLabel ==
    /\ norm_pc = "call"
    /\ canonical' = normalize_label(raw_label)
    /\ norm_pc' = "done"
    /\ UNCHANGED raw_label
    /\ UNCHANGED <<chunkVars, mergeVars, alignVars, dbVars, callVars, jobVars>>

PatternsIn(lower) == {k \in 1..Len(LABEL_MAP) : Contains(LABEL_MAP[k][1], lower)}

\* C9: normalize_label(raw) lowercases and trims raw and returns the canonical
\* label of the longest LABEL_MAP pattern that is a substring of it, the
\* earliest-registered one among equally long matches, and None when no pattern
\* is a substring; "Total Revenues" gives "Total Revenue", and a label with
\* "revenue" but no longer pattern gives "Revenue".
C9_LongestPatternWins ==
    norm_pc = "done" =>
        LET m == PatternsIn(Strip(Lower(raw_label)))
        IN  /\ m = {} => canonical = None
            /\ m # {} =>
                  \E k \in m :
                      /\ canonical = Some(LABEL_MAP[k][2])
                      /\ \A q \in m :
                            \/ Len(LABEL_MAP[q][1]) < Len(LABEL_MAP[k][1])
                            \/ (Len(LABEL_MAP[q][1]) = Len(LABEL_MAP[k][1]) /\ k <= q)
            /\ raw_label = "Total Revenues" => canonical = Some("Total Revenue")
            /\ raw_label = "  Revenues \t" => canonical = Some("Revenue")
            /\ raw_label = "Misc" => canonical = None

\* Two equally long patterns of different canonical labels match ("net sales"
\* and "inventory"): the earlier-registered "net sales" decides.
C9_Witness ==
    /\ norm_pc = "done"
    /\ raw_label = "Net Sales of Inventory"
    /\ canonical = Some("Revenue")

(***************************************************************************)
(* Alignment engine: align_line_items_across_periods                       *)
(* (consolidation/aggregation.py 60-119).                                  *)
(***************************************************************************)

\* Python truthiness of a nullable string: neither None nor "".
Truthy(opt) == opt # None /\ opt # Some("")

\* a or b, for a nullable string a and a string b.
OrElse(opt, b) == IF Truthy(opt) THEN opt[1] ELSE b

\* Most statements in an alignment input.
MaxAlignStmts == 2

\* The line items a statement of the input may hold, in their sort_order.
AlignItems == <<
    [label |-> "Revenue", edited_label |-> None, canonical_label |-> None,
     value |-> Some(1000), edited_value |-> None,
     category |-> "revenue", is_total |-> FALSE, indent_level |-> 0],
    [label |-> "Net sales", edited_label |-> None, canonical_label |-> Some("Revenue"),
     value |-> Some(1200), edited_value |-> Some(1250),
     category |-> "revenue", is_total |-> TRUE, indent_level |-> 1],
    [label |-> "COGS", edited_label |-> Some("Cost of Sales"), canonical_label |-> None,
     value |-> None, edited_value |-> None,
     category |-> "cost_of_revenue", is_total |-> FALSE, indent_level |-> 0],
    [label |-> "Net Income", edited_label |-> Some(""), canonical_label |-> None,
     value |-> Some(7), edited_value |-> Some(0),
     category |-> "net_income", is_total |-> TRUE, indent_level |-> 0]
>>

\* (period, fiscal_period_label) of a statement of the input.
AlignPeriods ==
    {<<"Q1 2023", None>>, <<"Q2 2023", None>>, <<"Q1 2023", Some("FY 2023")>>,
     <<"Q2 2023", Some("")>>}

\* The items of AlignItems at the indices in idx, in order.
RECURSIVE Pick(_, _)
Pick(idx, k) ==
    IF k > Len(AlignItems) THEN <<>>
    ELSE IF k \in idx THEN <<AlignItems[k]>> \o Pick(idx, k + 1)
    ELSE Pick(idx, k + 1)

AlignStatements ==
    {[period |-> h[1], fiscal_period_label |-> h[2], line_items |-> Pick(idx, 1)] :
        h \in AlignPeriods, idx \in SUBSET (1..Len(AlignItems))}

\* s.fiscal_period_label or s.period
PeriodLabel(s) == OrElse(s.fiscal_period_label, s.period)

\* li.canonical_label or li.edited_label or li.label
RowKey(li) == OrElse(li.canonical_label, OrElse(li.edited_label, li.label))

\* LineItem.display_label (models.py 86-88).
display_label(li) == IF li.edited_label # None THEN li.edited_label[1] ELSE li.label

\* li.edited_value if li.edited_value is not None else li.value
DisplayValue(li) == IF li.edited_value # None THEN li.edited_value ELSE li.value

InSeq(x, seq) == \E i \in 1..Len(seq) : seq[i] = x

\* Lines 86-90.
RECURSIVE AlignPeriodsLoop(_, _, _)
AlignPeriodsLoop(stmts, k, periods) ==
    IF k > Len(stmts) THEN periods
    ELSE LET label == PeriodLabel(stmts[k])
         IN  AlignPeriodsLoop(stmts, k + 1,
                              IF InSeq(label, periods) THEN periods
                              ELSE Append(periods, label))

\* d[key] = val on a dict d.
DictSet(d, key, val) == [q \in DOMAIN d \cup {key} |-> IF q = key THEN val ELSE d[q]]

RowIndex(rows, key) ==
    IF \E r \in 1..Len(rows) : rows[r].canonical_label = key
    THEN CHOOSE r \in 1..Len(rows) : rows[r].canonical_label = key
    ELSE 0

NewRow(li) ==
    [canonical_label |-> RowKey(li), category |-> li.category,
     is_total |-> li.is_total, indent_level |-> li.indent_level, values |-> <<>>]

\* A variant that fills every known period of a new row with null.
AlignItem_NullFilled(rows, period_label, li) ==
    LET known == IF RowIndex(rows, RowKey(li)) = 0 THEN Append(rows, NewRow(li)) ELSE rows
        r == RowIndex(known, RowKey(li))
        all == UNION {DOMAIN known[x].values : x \in 1..Len(known)} \cup {period_label}
    IN  [known EXCEPT ![r].values =
            [q \in all |-> IF q = period_label THEN DisplayValue(li)
                           ELSE IF q \in DOMAIN known[r].values THEN known[r].values[q]
                           ELSE None]]

\* Lines 100-112 for one line item; rows holds row_order, row_meta and
\* row_values together, one record per key in row_order.
AlignItem(rows, period_label, li) ==
    LET known == IF RowIndex(rows, RowKey(li)) = 0 THEN Append(rows, NewRow(li)) ELSE rows
        r == RowIndex(known, RowKey(li))
    IN  [known EXCEPT ![r].values = DictSet(known[r].values, period_label, DisplayValue(li))]

\* Lines 97-112.
RECURSIVE AlignRowsLoop(_, _, _, _)
AlignRowsLoop(stmts, k, j, rows) ==
    IF k > Len(stmts) THEN rows
    ELSE IF j > Len(stmts[k].line_items) THEN AlignRowsLoop(stmts, k + 1, 1, rows)
    ELSE AlignRowsLoop(stmts, k, j + 1,
                       AlignItem(rows, PeriodLabel(stmts[k]), stmts[k].line_items[j]))

align_line_items_across_periods(stmts) ==
    IF stmts = <<>> THEN [periods |-> <<>>, rows |-> <<>>]
    ELSE [periods |-> AlignPeriodsLoop(stmts, 1, <<>>),
          rows |-> AlignRowsLoop(stmts, 1, 1, <<>>)]

AlignInit ==
    /\ align_statements = <<>>
    /\ aligned = [periods |-> <<>>, rows |-> <<>>]
    /\ align_pc = "collect"
    /\ comparison = <<>>

AlignIdle ==
    /\ align_statements = <<>>
    /\ aligned = [periods |-> <<>>, rows |-> <<>>]
    /\ align_pc = "idle"
    /\ comparison = <<>>

\* The caller's list of statements grows by one (aggregation.py 23-25).
AlignAddStatement ==
    /\ align_pc = "collect"
    /\ Len(align_statements) < MaxAlignStmts
    /\ \E s \in AlignStatements : align_statements' = Append(align_statements, s)
    /\ UNCHANGED <<aligned, align_pc, comparison>>
    /\ UNCHANGED <<chunkVars, mergeVars, normVars, dbVars, callVars, jobVars>>

AlignLineItems ==
    /\ align_pc = "collect"
    /\ aligned' = align_line_items_across_periods(align_statements)
    /\ align_pc' = "done"
    /\ UNCHANGED <<align_statements, comparison>>
    /\ UNCHANGED <<chunkVars, mergeVars, normVars, dbVars, callVars, jobVars>>

(***************************************************************************)
(* Comparison dataset: group_by_investment_and_date and                    *)
(* build_comparison_dataset (consolidation/aggregation.py 12-26, 122-162). *)
(***************************************************************************)

\* Most statements mapped to the investment.
MaxCmpStmts == 3

\* The statement types, in the order ORDER BY statement_type gives them.
StatementTypes == <<"balance_sheet", "cash_flow", "income_statement">>

\* The statements that may be mapped to the investment: one line item each,
\* whose row key is its label.
CmpStatements ==
    {[statement_type |-> t, period |-> p, fiscal_period_label |-> None,
      line_items |-> <<[AlignItems[1] EXCEPT !.label = l, !.value = Some(v)]>>] :
        t \in {"balance_sheet", "income_statement"}, p \in {"Q1 2023", "Q2 2023"},
        l \in {"Cash", "Revenue"}, v \in {1, 2}}

\* group_by_investment_and_date: the statements of each type that has some,
\* the types in query order.
group_by_investment_and_date(stmts) ==
    SelectSeq([k \in 1..Len(StatementTypes) |->
                  [statement_type |-> StatementTypes[k],
                   stmts |-> SelectSeq(stmts, LAMBDA s : s.statement_type = StatementTypes[k])]],
              LAMBDA g : g.stmts # <<>>)

\* A variant of dict.update that keeps the entries already there.
DictUpdate_KeepOld(d, other) == d @@ other

\* d.update(other)
DictUpdate(d, other) == other @@ d

\* Lines 147-156: all_metrics after the rows from row r of group k on.
RECURSIVE CollectMetrics(_, _, _, _)
CollectMetrics(groups, k, r, all_metrics) ==
    IF k > Len(groups) THEN all_metrics
    ELSE LET rows == align_line_items_across_periods(groups[k].stmts).rows
         IN  IF r > Len(rows) THEN CollectMetrics(groups, k + 1, 1, all_metrics)
             ELSE LET label == rows[r].canonical_label
                      cur == IF label \in DOMAIN all_metrics THEN all_metrics[label] ELSE <<>>
                  IN  CollectMetrics(groups, k, r + 1,
                                     DictSet(all_metrics, label,
                                             DictUpdate(cur, rows[r].values)))

build_comparison_dataset(stmts, investment_id) ==
    LET groups == group_by_investment_and_date(stmts)
    IN  [investment_id |-> investment_id,
         statement_types |->
            [t \in {groups[k].statement_type : k \in 1..Len(groups)} |->
                align_line_items_across_periods(
                    SelectSeq(stmts, LAMBDA s : s.statement_type = t))],
         normalized_metrics |-> CollectMetrics(groups, 1, 1, <<>>)]

\* One more statement is mapped to the investment.
CompareAddStatement ==
    /\ align_pc = "collect"
    /\ Len(align_statements) < MaxCmpStmts
    /\ \E s \in CmpStatements : align_statements' = Append(align_statements, s)
    /\ UNCHANGED <<aligned, align_pc, comparison>>
    /\ UNCHANGED <<chunkVars, mergeVars, normVars, dbVars, callVars, jobVars>>

BuildComparison ==
    /\ align_pc = "collect"
    /\ comparison' = build_comparison_dataset(align_statements, 1)
    /\ align_pc' = "done"
    /\ UNCHANGED <<align_statements, aligned>>
    /\ UNCHANGED <<chunkVars, mergeVars, normVars, dbVars, callVars, jobVars>>

\* seq lists the members of set once each, ordered by rank.
OrderedBy(seq, set, rank(_)) ==
    /\ {seq[i] : i \in 1..Len(seq)} = set
    /\ \A i, j \in 1..Len(seq) : i < j => rank(seq[i]) < rank(seq[j])

\* C8: periods are the distinct period labels of the input in first-seen order
\* (fiscal_period_label when set, else period); there is exactly one row per
\* distinct key (canonical_label, else edited_label, else label) in first-seen
\* order; and a row has an entry under a period exactly when a statement with
\* that period label holds the key (otherwise the key is absent, not null).
C8_AlignFirstSeen ==
    align_pc = "done" =>
        LET S == align_statements
            label(k) == IF S[k].fiscal_period_label \notin {None, Some("")}
                        THEN S[k].fiscal_period_label[1] ELSE S[k].period
            key(li) == IF li.canonical_label \notin {None, Some("")} THEN li.canonical_label[1]
                       ELSE IF li.edited_label \notin {None, Some("")} THEN li.edited_label[1]
                       ELSE li.label
            holds(k, x) == \E j \in 1..Len(S[k].line_items) : key(S[k].line_items[j]) = x
            firstStmt(p) == CHOOSE k \in 1..Len(S) :
                                label(k) = p /\ \A m \in 1..(k - 1) : label(m) # p
            firstAt(x) == CHOOSE c \in (1..Len(S)) \X (1..Len(AlignItems)) :
                              /\ c[2] <= Len(S[c[1]].line_items)
                              /\ key(S[c[1]].line_items[c[2]]) = x
                              /\ \A m \in 1..(c[1] - 1) : ~holds(m, x)
                              /\ \A j \in 1..(c[2] - 1) : key(S[c[1]].line_items[j]) # x
            rowRank(x) == firstAt(x)[1] * (Len(AlignItems) + 1) + firstAt(x)[2]
            rows == aligned.rows
        IN  /\ OrderedBy(aligned.periods, {label(k) : k \in 1..Len(S)}, firstStmt)
            /\ OrderedBy([r \in 1..Len(rows) |-> rows[r].canonical_label],
                         {x \in {key(AlignItems[i]) : i \in 1..Len(AlignItems)} :
                             \E k \in 1..Len(S) : holds(k, x)},
                         rowRank)
            /\ \A r \in 1..Len(rows) :
                  DOMAIN rows[r].values =
                      {label(k) : k \in {m \in 1..Len(S) : holds(m, rows[r].canonical_label)}}

\* A ("Q1 2023", 2 items) and B ("Q2 2023", 3 items, one label not in A): two
\* periods, three rows, the B-only row without a "Q1 2023" entry.
C8_Witness ==
    /\ align_pc = "done"
    /\ Len(align_statements) = 2
    /\ PeriodLabel(align_statements[1]) = "Q1 2023"
    /\ PeriodLabel(align_statements[2]) = "Q2 2023"
    /\ Len(align_statements[1].line_items) = 2
    /\ Len(align_statements[2].line_items) = 3
    /\ aligned.periods = <<"Q1 2023", "Q2 2023">>
    /\ Len(aligned.rows) = 3
    /\ DOMAIN aligned.rows[3].values = {"Q2 2023"}
    /\ DOMAIN aligned.rows[1].values = {"Q1 2023", "Q2 2023"}

(***************************************************************************)
(* Review / edit workflow: review_statement, lock_statement,               *)
(* edit_line_item, get_edit_history (service.py 451-521). Each call runs   *)
(* on its own session and commits once, so a call is one step.             *)
(***************************************************************************)

\* Most service calls in a run of the review workflow.
MaxCalls == 3

\* A variant that also admits "rejected".
VALID_REVIEW_STATUSES_WithRejected == {"pending", "reviewed", "approved", "rejected"}

VALID_REVIEW_STATUSES == {"pending", "reviewed", "approved"}

Ok(body) == [code |-> 200, detail |-> "", body |-> body]

\* exceptions.py: bad_request, not_found
bad_request(detail) == [code |-> 400, detail |-> detail, body |-> <<>>]

not_found(detail) == [code |-> 404, detail |-> detail, body |-> <<>>]

LockedError == bad_request("Statement is locked and cannot be modified")

InvalidStatusError == bad_request("Invalid review_status")

\* A FinancialStatement row as run_parsing inserts it (column defaults of
\* models.py 40-48).
NewStatement(doc, type, period, pages) ==
    [document_id |-> doc, statement_type |-> type, period |-> period,
     source_pages |-> pages,
     review_status |-> "pending", reviewer_id |-> None, review_notes |-> None,
     locked |-> FALSE,
     investment_id |-> None, reporting_date |-> None, fiscal_period_label |-> None]

\* A LineItem row as run_parsing inserts it (column defaults of models.py 77-81).
NewLineItem(stmt, label, value, order) ==
    [statement_id |-> stmt, label |-> label, value |-> value, sort_order |-> order,
     edited_label |-> None, edited_value |-> None, is_user_modified |-> FALSE,
     canonical_label |-> None]

DbEmpty ==
    /\ statements = <<>>
    /\ line_items = <<>>
    /\ edit_logs = <<>>

NoCall ==
    [n |-> 0, op |-> "none", target |-> 0, status |-> "", reviewer_id |-> None,
     review_notes |-> None, edited_label |-> None, edited_value |-> None,
     result |-> Ok(<<>>)]

CallIdle ==
    /\ clock = 0
    /\ last_call = NoCall
    /\ edits = <<>>

\* Two parsed statements of document 1 with one line item each.
ReviewInit ==
    /\ statements = (1 :> NewStatement(1, "income_statement", "Q1 2023", "1-2")
                     @@ 2 :> NewStatement(1, "balance_sheet", "Q1 2023", "3"))
    /\ line_items = (1 :> NewLineItem(1, "Revenue", None, 0)
                     @@ 2 :> NewLineItem(2, "Cash", Some(40), 0))
    /\ edit_logs = <<>>
    /\ CallIdle

\* Ids a request may name: the rows that exist and one that does not.
StatementIds == 1..3

LineItemIds == 1..3

ReviewInputs ==
    {<<"pending", None, None>>, <<"reviewed", Some("alice"), Some("ok")>>,
     <<"approved", Some("bob"), None>>, <<"rejected", Some("alice"), None>>}

EditLabels == {None, Some(""), Some("Sales")}

EditValues == {None, Some(100), Some(150)}

\* str(x) of a float x holding a whole number, or of None.
FloatStr(opt) == IF opt = None THEN "None" ELSE IntStr(opt[1]) \o ".0"

Call(op, target) ==
    [NoCall EXCEPT !.n = last_call.n + 1, !.op = op, !.target = target]

\* A variant without the lock check.
ReviewLocked_Unchecked(sid) == FALSE

\* stmt.locked (line 461).
ReviewLocked(sid) == statements[sid].locked

\* review_statement, lines 454-468.
ReviewStatement(sid, review_status, reviewer_id, review_notes) ==
    LET call == [Call("review", sid) EXCEPT !.status = review_status,
                     !.reviewer_id = reviewer_id, !.review_notes = review_notes]
    IN  /\ last_call.n < MaxCalls
        /\ IF review_status \notin VALID_REVIEW_STATUSES
           THEN /\ last_call' = [call EXCEPT !.result = InvalidStatusError]
                /\ UNCHANGED statements
           ELSE IF sid \notin DOMAIN statements
           THEN /\ last_call' = [call EXCEPT !.result = not_found("Financial statement not found")]
                /\ UNCHANGED statements
           ELSE IF ReviewLocked(sid)
           THEN /\ last_call' = [call EXCEPT !.result = LockedError]
                /\ UNCHANGED statements
           ELSE /\ statements' = [statements EXCEPT ![sid].review_status = review_status,
                                      ![sid].reviewer_id = reviewer_id,
                                      ![sid].review_notes = review_notes]
                /\ last_call' = [call EXCEPT !.result = Ok(<<>>)]
        /\ UNCHANGED <<line_items, edit_logs, clock, edits>>
        /\ UNCHANGED <<chunkVars, mergeVars, normVars, alignVars, jobVars>>

\* lock_statement, lines 471-477.
LockStatement(sid) ==
    /\ last_call.n < MaxCalls
    /\ IF sid \notin DOMAIN statements
       THEN /\ last_call' = [Call("lock", sid) EXCEPT
                                !.result = not_found("Financial statement not found")]
            /\ UNCHANGED statements
       ELSE /\ statements' = [statements EXCEPT ![sid].locked = TRUE,
                                  ![sid].review_status = "approved"]
            /\ last_call' = [Call("lock", sid) EXCEPT !.result = Ok(<<>>)]
    /\ UNCHANGED <<line_items, edit_logs, clock, edits>>
    /\ UNCHANGED <<chunkVars, mergeVars, normVars, alignVars, jobVars>>

\* The EditLog rows of one edit_line_item call on li (lines 495-508), in the
\* order they are added; each reads created_at from the clock as it is inserted.
LabelEdited(li, edited_label) == edited_label # None /\ edited_label # li.edited_label

ValueEdited(li, edited_value) == edited_value # None /\ edited_value # li.edited_value

\* A variant that logs every submitted field, changed or not.
EditRows_AllSubmitted(lid, li, edited_label, edited_value) ==
    (IF edited_label # None
     THEN <<[line_item_id |-> lid, field |-> "label",
             old_value |-> OrElse(li.edited_label, li.label),
             new_value |-> edited_label[1]]>>
     ELSE <<>>)
    \o
    (IF edited_value # None
     THEN <<[line_item_id |-> lid, field |-> "value",
             old_value |-> FloatStr(DisplayValue(li)),
             new_value |-> FloatStr(edited_value)]>>
     ELSE <<>>)

EditRows(lid, li, edited_label, edited_value) ==
    (IF LabelEdited(li, edited_label)
     THEN <<[line_item_id |-> lid, field |-> "label",
             old_value |-> OrElse(li.edited_label, li.label),
             new_value |-> edited_label[1]]>>
     ELSE <<>>)
    \o
    (IF ValueEdited(li, edited_value)
     THEN <<[line_item_id |-> lid, field |-> "value",
             old_value |-> FloatStr(DisplayValue(li)),
             new_value |-> FloatStr(edited_value)]>>
     ELSE <<>>)

\* The rows with their ids (autoincrement) and created_at (datetime.utcnow at
\* insert: every reading of the clock is later than the one before).
Stamp(rows) ==
    [k \in 1..Len(rows) |->
        [id |-> Len(edit_logs) + k, line_item_id |-> rows[k].line_item_id,
         field |-> rows[k].field, old_value |-> rows[k].old_value,
         new_value |-> rows[k].new_value, created_at |-> clock + k]]

\* A variant that marks the item on every call.
EditedItem_AlwaysMarked(li, edited_label, edited_value) ==
    [li EXCEPT
        !.edited_label = IF LabelEdited(li, edited_label) THEN edited_label ELSE @,
        !.edited_value = IF ValueEdited(li, edited_value) THEN edited_value ELSE @,
        !.is_user_modified = TRUE]

\* Lines 500, 508, 510-511.
EditedItem(li, edited_label, edited_value) ==
    [li EXCEPT
        !.edited_label = IF LabelEdited(li, edited_label) THEN edited_label ELSE @,
        !.edited_value = IF ValueEdited(li, edited_value) THEN edited_value ELSE @,
        !.is_user_modified = IF edited_label # None \/ edited_value # None THEN TRUE ELSE @]

\* A variant without the lock check.
EditLocked_Unchecked(sid) == FALSE

\* stmt and stmt.locked (line 491).
EditLocked(sid) == sid \in DOMAIN statements /\ statements[sid].locked

\* A variant in which the new rows take the place of the stored ones.
AddEditLogs_Overwrite(rows) == Stamp(rows)

\* db.add(EditLog(...)) for each changed field, lines 497-510: rows are only
\* ever inserted into edit_logs.
AddEditLogs(rows) == edit_logs \o Stamp(rows)

\* edit_line_item, lines 480-515.
EditLineItem(lid, edited_label, edited_value) ==
    LET call == [Call("edit", lid) EXCEPT !.edited_label = edited_label,
                     !.edited_value = edited_value]
    IN  /\ last_call.n < MaxCalls
        /\ IF lid \notin DOMAIN line_items
           THEN /\ last_call' = [call EXCEPT !.result = not_found("Line item not found")]
                /\ UNCHANGED <<line_items, edit_logs, clock, edits>>
           ELSE LET li == line_items[lid]
                    sid == li.statement_id
                IN  IF EditLocked(sid)
                    THEN /\ last_call' = [call EXCEPT !.result = LockedError]
                         /\ UNCHANGED <<line_items, edit_logs, clock, edits>>
                    ELSE LET rows == EditRows(lid, li, edited_label, edited_value)
                         IN  /\ edit_logs' = AddEditLogs(rows)
                             /\ clock' = clock + Len(rows)
                             /\ UNCHANGED edits
                             /\ line_items' =
                                    [line_items EXCEPT
                                        ![lid] = EditedItem(li, edited_label, edited_value)]
                             /\ last_call' = [call EXCEPT !.result = Ok(<<>>)]
        /\ UNCHANGED statements
        /\ UNCHANGED <<chunkVars, mergeVars, normVars, alignVars, jobVars>>

\* rows sorted by created_at, latest first (order_by(EditLog.created_at.desc())).
RECURSIVE SortDesc(_)
SortDesc(rows) ==
    IF rows = {} THEN <<>>
    ELSE LET first == CHOOSE r \in rows : \A q \in rows : r.created_at >= q.created_at
         IN  <<first>> \o SortDesc(rows \ {first})

\* get_edit_history, lines 518-521.
get_edit_history(lid) ==
    SortDesc({edit_logs[k] : k \in {i \in 1..Len(edit_logs) : edit_logs[i].line_item_id = lid}})

GetEditHistory(lid) ==
    /\ last_call.n < MaxCalls
    /\ last_call' = [Call("history", lid) EXCEPT !.result = Ok(get_edit_history(lid))]
    /\ UNCHANGED <<statements, line_items, edit_logs, clock, edits>>
    /\ UNCHANGED <<chunkVars, mergeVars, normVars, alignVars, jobVars>>

ReviewNext ==
    \/ \E sid \in StatementIds, r \in ReviewInputs : ReviewStatement(sid, r[1], r[2], r[3])
    \/ \E sid \in StatementIds : LockStatement(sid)
    \/ \E lid \in LineItemIds, l \in EditLabels, v \in EditValues : EditLineItem(lid, l, v)
    \/ \E lid \in LineItemIds : GetEditHistory(lid)

(***************************************************************************)
(* edit_line_item served concurrently: the endpoints are plain functions,  *)
(* which FastAPI runs in a thread pool, each request on its own session    *)
(* (database.py get_db).  A request first loads the line item and its      *)
(* statement into its session and checks the lock; its assignments and its *)
(* commit work on what it loaded.                                          *)
(***************************************************************************)

\* Most edit requests served in one run.
MaxEdits == 3

\* edit_line_item, lines 484-492: the rows are loaded and the lock is checked.
EditBegin(lid, edited_label, edited_value) ==
    LET call == [Call("edit", lid) EXCEPT !.edited_label = edited_label,
                     !.edited_value = edited_value]
    IN  /\ Len(edits) < MaxEdits
        /\ last_call.n < MaxCalls
        /\ IF lid \notin DOMAIN line_items
           THEN /\ last_call' = [call EXCEPT !.result = not_found("Line item not found")]
                /\ UNCHANGED edits
           ELSE IF EditLocked(line_items[lid].statement_id)
           THEN /\ last_call' = [call EXCEPT !.result = LockedError]
                /\ UNCHANGED edits
           ELSE /\ edits' = Append(edits, [lid |-> lid, edited_label |-> edited_label,
                                           edited_value |-> edited_value,
                                           li |-> line_items[lid], pc |-> "loaded",
                                           committed |-> 0])
                /\ UNCHANGED last_call
        /\ UNCHANGED <<statements, line_items, edit_logs, clock>>
        /\ UNCHANGED <<chunkVars, mergeVars, normVars, alignVars, jobVars>>

\* edit_line_item, lines 494-515, for request r: the log rows and the
\* assignments are computed from the line item as the session loaded it; the
\* commit inserts the rows and updates the columns whose attribute changed.
EditCommit(r) ==
    LET e == edits[r]
        rows == EditRows(e.lid, e.li, e.edited_label, e.edited_value)
        new == EditedItem(e.li, e.edited_label, e.edited_value)
    IN  /\ e.pc = "loaded"
        /\ last_call.n < MaxCalls
        /\ edit_logs' = AddEditLogs(rows)
        /\ clock' = clock + Len(rows)
        /\ line_items' =
              [line_items EXCEPT
                  ![e.lid] = [f \in DOMAIN new |-> IF new[f] # e.li[f] THEN new[f] ELSE @[f]]]
        /\ edits' = [edits EXCEPT
                        ![r].pc = "done",
                        ![r].committed =
                            1 + Cardinality({q \in 1..Len(edits) : edits[q].pc = "done"})]
        /\ last_call' = [Call("edit", e.lid) EXCEPT !.edited_label = e.edited_label,
                             !.edited_value = e.edited_value, !.result = Ok(<<>>)]
        /\ UNCHANGED statements
        /\ UNCHANGED <<chunkVars, mergeVars, normVars, alignVars, jobVars>>

ConcurrentNext ==
    \/ \E lid \in 1..2, l \in {None, Some("Sales")}, v \in {Some(100), Some(150)} :
          EditBegin(lid, l, v)
    \/ \E r \in 1..Len(edits) : EditCommit(r)
    \/ LockStatement(1)

\* The statement a review or edit call names is locked before the call.
CallOnLocked(c) ==
    \/ /\ c.op = "review"
       /\ c.target \in DOMAIN statements
       /\ statements[c.target].locked
    \/ /\ c.op = "edit"
       /\ c.target \in DOMAIN line_items
       /\ line_items[c.target].statement_id \in DOMAIN statements
       /\ statements[line_items[c.target].statement_id].locked

\* This step is one service call (last_call' describes it).
IsCall == last_call'.n = last_call.n + 1

\* C6 as stated: once a statement is locked, every review_statement call on it
\* and every edit_line_item call on one of its line items fails with the
\* locked error and changes no statement, line item or EditLog row.
C6_LockedCallsFailLocked ==
    [][(IsCall /\ CallOnLocked(last_call')) =>
          /\ last_call'.result = LockedError
          /\ UNCHANGED <<statements, line_items, edit_logs>>]_vars

\* C6 amended: on a locked statement every edit_line_item call and every
\* review_statement call with a valid review_status fails with the locked
\* error; a review_statement call with an invalid review_status fails with the
\* invalid-status error (that check comes first); in every case no statement,
\* line item or EditLog row changes.
C6_LockedCallsFail ==
    [][(IsCall /\ CallOnLocked(last_call')) =>
          /\ last_call'.result =
                IF last_call'.op = "review"
                   /\ last_call'.status \notin VALID_REVIEW_STATUSES
                THEN InvalidStatusError ELSE LockedError
          /\ UNCHANGED <<statements, line_items, edit_logs>>]_vars

\* An edit that would change the label and the value of an item of a locked
\* statement has just been refused.
C6_Witness ==
    /\ last_call.op = "edit"
    /\ last_call.result = LockedError
    /\ last_call.edited_label # None
    /\ last_call.edited_value # None
    /\ statements[line_items[last_call.target].statement_id].locked
    /\ line_items[last_call.target].edited_label = None
    /\ line_items[last_call.target].edited_value = None

\* C7: an edit_line_item call appends exactly one EditLog row for each
\* submitted field (label, value) whose submitted value differs from the
\* item's current edited value, and no row otherwise; no other call appends or
\* changes a row; get_edit_history returns an item's rows most-recent-first.
C7_OneRowPerChangedField ==
    [][IsCall =>
          LET c == last_call'
              added == SubSeq(edit_logs', Len(edit_logs) + 1, Len(edit_logs'))
              accepted == c.op = "edit" /\ c.result.code = 200
              changed ==
                  IF accepted
                  THEN {f \in {"label", "value"} :
                          IF f = "label"
                          THEN c.edited_label # None
                               /\ c.edited_label # line_items[c.target].edited_label
                          ELSE c.edited_value # None
                               /\ c.edited_value # line_items[c.target].edited_value}
                  ELSE {}
              mine == {i \in 1..Len(edit_logs) : edit_logs[i].line_item_id = c.target}
              h == c.result.body
          IN  /\ Len(edit_logs') >= Len(edit_logs)
              /\ SubSeq(edit_logs', 1, Len(edit_logs)) = edit_logs
              /\ Len(added) = Cardinality(changed)
              /\ {added[k].field : k \in 1..Len(added)} = changed
              /\ \A k \in 1..Len(added) : added[k].line_item_id = c.target
              /\ c.op = "history" =>
                    /\ Len(h) = Cardinality(mine)
                    /\ {h[i].id : i \in 1..Len(h)} = mine
                    /\ \A i \in 1..Len(h) : h[i] = edit_logs[h[i].id]
                    /\ \A i, j \in 1..Len(h) : i < j => h[i].id > h[j].id]_vars

\* The value of item 1 went from unset to 100 and then to 150: exactly two
\* rows, and the history lists the later one first.
C7_Witness ==
    /\ last_call.op = "history"
    /\ last_call.target = 1
    /\ Len(edit_logs) = 2
    /\ line_items[1].edited_value = Some(150)
    /\ <<edit_logs[1].old_value, edit_logs[1].new_value>> = <<"None", "100.0">>
    /\ <<edit_logs[2].old_value, edit_logs[2].new_value>> = <<"100.0", "150.0">>
    /\ last_call.result.body = <<edit_logs[2], edit_logs[1]>>

(***************************************************************************)
(* Parse-job controller: trigger_parsing (router.py 31-43),                *)
(* parse_document_financials (service.py 267-307) and the background task  *)
(* run_parsing (service.py 175-264). Requests are served by a thread pool  *)
(* and every background task runs in a thread of its own, each on its own  *)
(* session: a step is what one of them does up to its next commit.         *)
(***************************************************************************)

\* Most trigger requests in a run.
MaxTriggers == 2

PARSING_CHUNK_SIZE == 25

PARSING_CHUNK_OVERLAP == 5

\* The documents table and the upload folder: a two-chunk PDF, a one-chunk
\* PDF, a Word file, and a PDF whose file is gone.
Documents ==
    (1 :> [investment_id |-> 1, document_type |-> ".PDF", on_disk |-> TRUE, pages |-> 30]
     @@ 2 :> [investment_id |-> 1, document_type |-> ".pdf", on_disk |-> TRUE, pages |-> 10]
     @@ 3 :> [investment_id |-> 1, document_type |-> ".docx", on_disk |-> TRUE, pages |-> 0]
     @@ 4 :> [investment_id |-> 1, document_type |-> ".pdf", on_disk |-> FALSE, pages |-> 0])

\* (investment_id, document_id) of the requests: the four documents, document 1
\* under another investment, and a document that does not exist.
TriggerInputs == {<<1, 1>>, <<1, 2>>, <<1, 3>>, <<1, 4>>, <<2, 1>>, <<1, 5>>}

ApiKeys == {"", "sk-ant-test"}

NoTrigger == [n |-> 0, investment_id |-> 0, document_id |-> 0, result |-> None]

JobIdle ==
    /\ api_key = ""
    /\ jobs = <<>>
    /\ tasks = <<>>
    /\ last_trigger = NoTrigger

JobInit ==
    /\ api_key \in ApiKeys
    /\ jobs = <<>>
    /\ tasks = <<>>
    /\ last_trigger = NoTrigger

\* The id of the next row of a table: an INTEGER PRIMARY KEY of SQLite is one
\* more than the largest id in the table.
NextId(table) ==
    IF DOMAIN table = {} THEN 1
    ELSE (CHOOSE m \in DOMAIN table : \A k \in DOMAIN table : k <= m) + 1

\* A variant of the active-job query that looks for pending jobs only.
ActiveJob_PendingOnly(document_id) ==
    \E j \in DOMAIN jobs :
        jobs[j].document_id = document_id /\ jobs[j].status \in {"pending"}

\* The active-job query of lines 287-290.
ActiveJob(document_id) ==
    \E j \in DOMAIN jobs :
        jobs[j].document_id = document_id /\ jobs[j].status \in {"pending", "processing"}

\* The checks of parse_document_financials, lines 269-292: the exception
\* raised, or None when the request passes.
parse_checks(investment_id, document_id) ==
    IF api_key = ""
    THEN Some(bad_request("ANTHROPIC_API_KEY is not configured"))
    ELSE IF ~(document_id \in DOMAIN Documents
              /\ Documents[document_id].investment_id = investment_id)
    THEN Some(not_found("Document not found"))
    ELSE IF Lower(Documents[document_id].document_type) # ".pdf"
    THEN Some(bad_request("Only PDF documents can be parsed for financial statements"))
    ELSE IF ~Documents[document_id].on_disk
    THEN Some(not_found("PDF file not found on disk"))
    ELSE IF ActiveJob(document_id)
    THEN Some(bad_request("A parsing job is already in progress for this document"))
    ELSE None

\* The locals of a request that passed the checks and of its background task.
NewTask(investment_id, document_id) ==
    [investment_id |-> investment_id, document_id |-> document_id,
     pc |-> "validated", job_id |-> 0, chunks |-> <<>>, i |-> 1,
     job |-> None, all_results |-> <<>>, errors |-> <<>>]

\* parse_document_financials up to the active-job check (lines 269-292).
TriggerValidate(investment_id, document_id) ==
    LET err == parse_checks(investment_id, document_id)
    IN  /\ last_trigger.n < MaxTriggers
        /\ last_trigger' = [n |-> last_trigger.n + 1, investment_id |-> investment_id,
                            document_id |-> document_id, result |-> err]
        /\ tasks' = IF err = None
                    THEN Append(tasks, NewTask(investment_id, document_id))
                    ELSE tasks
        /\ UNCHANGED <<api_key, jobs>>
        /\ UNCHANGED <<chunkVars, mergeVars, normVars, alignVars, dbVars, callVars>>

\* ParseJob(...) of lines 297-302 with the column defaults of models.py 14-17.
NewJob(document_id, total_chunks) ==
    [document_id |-> document_id, status |-> "processing",
     total_chunks |-> total_chunks, completed_chunks |-> 0, error_message |-> None]

\* The rest of the request: lines 295-307 and router.py 39-43.
TriggerCreate(t) ==
    /\ tasks[t].pc = "validated"
    /\ LET cs == _extract_chunks(Documents[tasks[t].document_id].pages,
                                 PARSING_CHUNK_SIZE, PARSING_CHUNK_OVERLAP)
           id == NextId(jobs)
       IN  /\ jobs' = (id :> NewJob(tasks[t].document_id, Len(cs))) @@ jobs
           /\ tasks' = [tasks EXCEPT ![t].pc = "queued", ![t].job_id = id, ![t].chunks = cs]
    /\ UNCHANGED <<api_key, last_trigger>>
    /\ UNCHANGED <<chunkVars, mergeVars, normVars, alignVars, dbVars, callVars>>

\* db.query(ParseJob).get(job_id): the local `job` holds the row of that id,
\* if there is one.
GetJob(id) == IF id \in DOMAIN jobs THEN Some(id) ELSE None

\* run_parsing, lines 178-186.
WorkerStart(t) ==
    /\ tasks[t].pc = "queued"
    /\ tasks' = [tasks EXCEPT
                    ![t].job = GetJob(tasks[t].job_id),
                    ![t].pc =
                        IF tasks[t].job_id \notin DOMAIN jobs THEN "done"
                        ELSE IF tasks[t].chunks = <<>> THEN "finish"
                        ELSE "loop"]
    /\ UNCHANGED <<api_key, jobs, last_trigger>>
    /\ UNCHANGED <<chunkVars, mergeVars, normVars, alignVars, dbVars, callVars>>

\* What _call_claude does for chunk c (lines 150-160): it returns the value
\* json.loads gives, or an empty list for an empty reply, or it raises.
JsonList(items) == [kind |-> "returned", json |-> "list", items |-> items, error |-> ""]

JsonNull == [kind |-> "returned", json |-> "null", items |-> <<>>, error |-> ""]

Raised(e) == [kind |-> "raised", json |-> "", items |-> <<>>, error |-> e]

\* The lists a reply for chunk c may hold: no statement, or one income
\* statement with two line items.
ChunkLists(c) ==
    {<<>>, <<StmtDict(<<<<"income_statement", "Q1 2023">>, Some(2)>>, c, 1)>>}

\* str(e) of the exception _call_claude lets through: here that of json.loads
\* on a reply that is not JSON.
CallErrors == {"Expecting value: line 1 column 1 (char 0)"}

_call_claude(c) ==
    {JsonList(l) : l \in ChunkLists(c)} \cup {JsonNull} \cup {Raised(e) : e \in CallErrors}

\* f"Pages {chunk['start_page']}-{chunk['end_page']}: {e}" (line 194)
PageError(chunk, e) ==
    "Pages " \o IntStr(chunk.start_page) \o "-" \o IntStr(chunk.end_page) \o ": " \o e

\* One pass of `for chunk in chunks` (lines 188-200).
WorkerChunk(t) ==
    /\ tasks[t].pc = "loop"
    /\ LET task == tasks[t]
           chunk == task.chunks[task.i]
           id == task.job_id
       IN  /\ \E out \in _call_claude(task.i) :
                 tasks' =
                    [tasks EXCEPT
                        ![t].all_results =
                            IF out.kind = "returned" THEN Append(@, out) ELSE @,
                        ![t].errors =
                            IF out.kind = "raised"
                            THEN Append(@, PageError(chunk, out.error)) ELSE @,
                        ![t].job = GetJob(id),
                        ![t].i = @ + 1,
                        ![t].pc = IF task.i = Len(task.chunks) THEN "finish" ELSE "loop"]
           /\ jobs' = IF id \in DOMAIN jobs
                      THEN [jobs EXCEPT ![id].completed_chunks = @ + 1]
                      ELSE jobs
    /\ UNCHANGED <<api_key, last_trigger>>
    /\ UNCHANGED <<chunkVars, mergeVars, normVars, alignVars, dbVars, callVars>>

\* "; ".join(errors)
RECURSIVE JoinErrors(_)
JoinErrors(errors) ==
    IF errors = <<>> THEN ""
    ELSE IF Len(errors) = 1 THEN errors[1]
    ELSE errors[1] \o "; " \o JoinErrors(Tail(errors))

\* _merge_statements iterates every chunk result: a result that is not a list
\* makes it raise TypeError.
MergeRaises(results) == \E k \in 1..Len(results) : results[k].json # "list"

NullTypeError == "'NoneType' object is not iterable"

\* Lines 219-244 for the statements merged[k..]: each statement and its line
\* items are inserted in turn.
RECURSIVE InsertStatements(_, _, _, _, _)
InsertStatements(document_id, stmts, k, stmt_table, item_table) ==
    IF k > Len(stmts) THEN <<stmt_table, item_table>>
    ELSE LET stmt_data == stmts[k]
             sid == NextId(stmt_table)
             items == GetLineItems(stmt_data)
             first == NextId(item_table)
             new_items ==
                 [id \in first..(first + Len(items) - 1) |->
                     NewLineItem(sid, items[id - first + 1].label,
                                 Some(items[id - first + 1].value),
                                 items[id - first + 1].sort_order)]
         IN  InsertStatements(
                 document_id, stmts, k + 1,
                 (sid :> NewStatement(document_id, stmt_data.statement_type,
                                      stmt_data.period, stmt_data.source_pages))
                     @@ stmt_table,
                 new_items @@ item_table)

\* Restriction of a table to the rows with an id in ids.
Rows(table, ids) == [id \in ids |-> table[id]]

\* Lines 211-244: the document's statements go, their line items with them
\* (cascade of models.py 55-58), and the merged statements are inserted.
ReplaceStatements(document_id, stmts) ==
    LET old == {s \in DOMAIN statements : statements[s].document_id = document_id}
        kept == DOMAIN statements \ old
        kept_items == {l \in DOMAIN line_items : line_items[l].statement_id \notin old}
    IN  InsertStatements(document_id, stmts, 1,
                         Rows(statements, kept), Rows(line_items, kept_items))

\* job.status = ...; job.error_message = ... on the row of the job, if it is there.
SetJob(id, status, error_message) ==
    IF id \in DOMAIN jobs
    THEN [jobs EXCEPT ![id].status = status, ![id].error_message = error_message]
    ELSE jobs

\* str(e) of the exceptions the code after the loop can meet: `job` is None
\* at line 213, the row of `job` is gone when line 213 reloads it, the
\* database refuses the commit of line 250.
NoJobError == "'NoneType' object has no attribute 'document_id'"

JobGoneError == "Instance '<ParseJob>' has been deleted, or its row is otherwise not present."

CommitError == "(sqlite3.OperationalError) database is locked"

\* What db.commit() of line 250 does: it commits, or it raises.
CommitOutcomes == {"committed", CommitError}

\* A variant of the handler without the rollback: the deletion of the
\* document's old statements that was flushed before the exception stays.
HandleException_NoRollback(id, e) ==
    /\ jobs' = SetJob(id, "failed", Some(e))
    /\ LET old == IF id \in DOMAIN jobs
                  THEN {s \in DOMAIN statements :
                           statements[s].document_id = jobs[id].document_id}
                  ELSE {}
       IN  /\ statements' = [s \in DOMAIN statements \ old |-> statements[s]]
           /\ line_items' = [l \in {x \in DOMAIN line_items :
                                       line_items[x].statement_id \notin old} |->
                                line_items[l]]

\* A variant of the handler that swallows the exception.
HandleException_Swallow(id, e) == UNCHANGED <<jobs, statements, line_items>>

\* The handler of lines 252-260: rollback, then the job of that id, if there
\* is one, is set to failed with str(e).
HandleException(id, e) ==
    /\ jobs' = SetJob(id, "failed", Some(e))
    /\ UNCHANGED <<statements, line_items>>

\* run_parsing after the loop: lines 202-262.
WorkerFinish(t) ==
    /\ tasks[t].pc = "finish"
    /\ LET task == tasks[t]
           id == task.job_id
       IN  IF task.all_results = <<>>
           THEN \* lines 202-207
                /\ jobs' = SetJob(id, "failed",
                                  Some(IF task.errors # <<>> THEN JoinErrors(task.errors)
                                       ELSE "No results extracted"))
                /\ UNCHANGED <<statements, line_items>>
           ELSE IF MergeRaises(task.all_results)
           THEN \* line 209 raises
                HandleException(id, NullTypeError)
           ELSE IF task.job = None
           THEN \* job.document_id of line 213 on None
                HandleException(id, NoJobError)
           ELSE IF id \notin DOMAIN jobs
           THEN \* job.document_id of line 213 on a row that is gone
                HandleException(id, JobGoneError)
           ELSE \* lines 209-250
                \E outcome \in CommitOutcomes :
                    IF outcome # "committed"
                    THEN HandleException(id, outcome)
                    ELSE LET results == [k \in 1..Len(task.all_results) |->
                                            task.all_results[k].items]
                             db == ReplaceStatements(jobs[id].document_id,
                                                     _merge_statements(results))
                         IN  /\ statements' = db[1]
                             /\ line_items' = db[2]
                             /\ jobs' = SetJob(id, "completed",
                                               IF task.errors # <<>>
                                               THEN Some("Partial errors: "
                                                         \o JoinErrors(task.errors))
                                               ELSE jobs[id].error_message)
    /\ tasks' = [tasks EXCEPT ![t].pc = "done"]
    /\ UNCHANGED <<api_key, last_trigger, edit_logs>>
    /\ UNCHANGED <<chunkVars, mergeVars, normVars, alignVars, callVars>>

JobNext ==
    \/ \E r \in TriggerInputs : TriggerValidate(r[1], r[2])
    \/ \E t \in 1..Len(tasks) : TriggerCreate(t)
    \/ \E t \in 1..Len(tasks) : WorkerStart(t)
    \/ \E t \in 1..Len(tasks) : WorkerChunk(t)
    \/ \E t \in 1..Len(tasks) : WorkerFinish(t)

(***************************************************************************)
(* The other operations on the stored data: delete_financials (service.py  *)
(* 334-342), map_statement_to_investment (service.py 526-539) and          *)
(* normalize_all_for_investment (normalization.py 121-143).                *)
(***************************************************************************)

\* The investments table.
Investments == {1}

\* delete_financials: two bulk deletes, which remove the rows they select and
\* nothing else (no session cascade, and SQLite does not enforce the foreign
\* keys on these connections).
DeleteFinancials(document_id) ==
    /\ last_call.n < MaxCalls
    /\ statements' = Rows(statements, {s \in DOMAIN statements :
                                          statements[s].document_id # document_id})
    /\ jobs' = Rows(jobs, {j \in DOMAIN jobs : jobs[j].document_id # document_id})
    /\ last_call' = [Call("delete", document_id) EXCEPT !.result = Ok(<<>>)]
    /\ UNCHANGED <<line_items, edit_logs, clock, edits, api_key, tasks, last_trigger>>
    /\ UNCHANGED <<chunkVars, mergeVars, normVars, alignVars>>

\* map_statement_to_investment, lines 526-539.
MapStatement(sid, investment_id, reporting_date, fiscal_period_label) ==
    /\ last_call.n < MaxCalls
    /\ IF sid \notin DOMAIN statements
       THEN /\ last_call' = [Call("map", sid) EXCEPT
                                !.result = not_found("Financial statement not found")]
            /\ UNCHANGED statements
       ELSE IF investment_id \notin Investments
       THEN /\ last_call' = [Call("map", sid) EXCEPT
                                !.result = not_found("Investment not found")]
            /\ UNCHANGED statements
       ELSE /\ statements' = [statements EXCEPT
                                 ![sid].investment_id = Some(investment_id),
                                 ![sid].reporting_date = reporting_date,
                                 ![sid].fiscal_period_label = fiscal_period_label]
            /\ last_call' = [Call("map", sid) EXCEPT !.result = Ok(<<>>)]
    /\ UNCHANGED <<line_items, edit_logs, clock, edits>>
    /\ UNCHANGED <<chunkVars, mergeVars, normVars, alignVars, jobVars>>

\* The loop body of normalize_statement_labels (lines 126-130) on one item.
NormalizedItem(item) ==
    LET found == normalize_label(OrElse(item.edited_label, item.label))
    IN  IF found # None THEN [item EXCEPT !.canonical_label = found] ELSE item

\* normalize_statement_labels, lines 121-132: the line items after it.
normalize_statement_labels(items, statement_id) ==
    [l \in DOMAIN items |->
        IF items[l].statement_id = statement_id THEN NormalizedItem(items[l]) ELSE items[l]]

\* normalize_all_for_investment, lines 135-143: every statement mapped to the
\* investment is normalized; the result is the number of items given a label.
NormalizeAll(investment_id) ==
    LET mapped == {s \in DOMAIN statements : statements[s].investment_id = Some(investment_id)}
        hit == {l \in DOMAIN line_items :
                   /\ line_items[l].statement_id \in mapped
                   /\ normalize_label(OrElse(line_items[l].edited_label,
                                             line_items[l].label)) # None}
    IN  /\ last_call.n < MaxCalls
        /\ line_items' =
              [l \in DOMAIN line_items |->
                  IF line_items[l].statement_id \in mapped
                  THEN normalize_statement_labels(line_items, line_items[l].statement_id)[l]
                  ELSE line_items[l]]
        /\ last_call' = [Call("normalize", investment_id) EXCEPT
                            !.result = Ok(Cardinality(hit))]
        /\ UNCHANGED <<statements, edit_logs, clock, edits>>
        /\ UNCHANGED <<chunkVars, mergeVars, normVars, alignVars, jobVars>>

\* Edits, normalization, locking and mapping on the two statements of
\* ReviewInit.
LabelsNext ==
    \/ \E lid \in 1..2, l \in {None, Some(""), Some("Misc")}, v \in {None, Some(100)} :
          EditLineItem(lid, l, v)
    \/ NormalizeAll(1)
    \/ \E sid \in 1..2 : LockStatement(sid)
    \/ MapStatement(2, 1, None, None)

\* Most service calls and most further trigger requests in a run of the
\* whole system.
MaxSysCalls == 3

MaxSysTriggers == 1

\* The state right after the first parse of document 2 has completed: its one
\* chunk gave one income statement with two line items.
FirstParse == <<JsonList(<<StmtDict(<<<<"income_statement", "Q1 2023">>, Some(2)>>, 1, 1)>>)>>

SystemInit ==
    LET db == InsertStatements(2, _merge_statements(<<FirstParse[1].items>>), 1, <<>>, <<>>)
        cs == _extract_chunks(Documents[2].pages, PARSING_CHUNK_SIZE, PARSING_CHUNK_OVERLAP)
    IN  /\ statements = db[1]
        /\ line_items = db[2]
        /\ edit_logs = <<>>
        /\ CallIdle
        /\ api_key = "sk-ant-test"
        /\ jobs = (1 :> [NewJob(2, Len(cs)) EXCEPT !.status = "completed",
                                                   !.completed_chunks = Len(cs)])
        /\ tasks = <<[NewTask(1, 2) EXCEPT !.pc = "done", !.job_id = 1, !.chunks = cs,
                                          !.i = Len(cs) + 1, !.job = Some(1),
                                          !.all_results = FirstParse]>>
        /\ last_trigger = [n |-> 1, investment_id |-> 1, document_id |-> 2,
                           result |-> None]

\* The whole system on document 2: parse runs together with the calls that
\* read and write what they stored.
SystemNext ==
    \/ /\ last_trigger.n <= MaxSysTriggers
       /\ TriggerValidate(1, 2)
    \/ \E t \in 1..Len(tasks) : TriggerCreate(t)
    \/ \E t \in 1..Len(tasks) : WorkerStart(t)
    \/ \E t \in 1..Len(tasks) : WorkerChunk(t)
    \/ \E t \in 1..Len(tasks) : WorkerFinish(t)
    \/ last_call.n < MaxSysCalls /\ DeleteFinancials(2)
    \/ last_call.n < MaxSysCalls /\ ReviewStatement(1, "reviewed", Some("alice"), None)
    \/ last_call.n < MaxSysCalls /\ LockStatement(1)
    \/ last_call.n < MaxSysCalls /\ EditLineItem(1, Some("Sales"), Some(100))
    \/ last_call.n < MaxSysCalls /\ MapStatement(1, 1, Some("2023-03-31"), Some("Q1 2023"))
    \/ last_call.n < MaxSysCalls /\ NormalizeAll(1)

\* Parse runs of document 2 together with delete_financials on it.
DeleteNext ==
    \/ TriggerValidate(1, 2)
    \/ \E t \in 1..Len(tasks) : TriggerCreate(t)
    \/ \E t \in 1..Len(tasks) : WorkerStart(t)
    \/ \E t \in 1..Len(tasks) : WorkerChunk(t)
    \/ \E t \in 1..Len(tasks) : WorkerFinish(t)
    \/ DeleteFinancials(2)

\* The same with the trigger requests served one at a time: a request is
\* validated only when every earlier one has created its job.
SequentialNext ==
    \/ /\ \A q \in 1..Len(tasks) : tasks[q].pc # "validated"
       /\ TriggerValidate(1, 2)
    \/ \E t \in 1..Len(tasks) : TriggerCreate(t)
    \/ \E t \in 1..Len(tasks) : WorkerStart(t)
    \/ \E t \in 1..Len(tasks) : WorkerChunk(t)
    \/ \E t \in 1..Len(tasks) : WorkerFinish(t)
    \/ DeleteFinancials(2)

\* This step is the validation of one trigger request (last_trigger' describes it).
IsTrigger == last_trigger'.n = last_trigger.n + 1

\* C3: a trigger for a document that has a pending or processing job is
\* rejected with a validation error (400); a trigger is rejected exactly when
\* the credential is missing, the document is unknown, it is not a PDF, its
\* file is missing or it has an active job; and a rejected trigger creates no
\* job, schedules no background task and leaves the jobs, the statements and
\* the line items as they were.
C3_RejectedTriggerChangesNothing ==
    [][IsTrigger =>
          LET req == last_trigger'
              d == req.document_id
              known == d \in DOMAIN Documents
                       /\ Documents[d].investment_id = req.investment_id
              active == known /\ \E j \in DOMAIN jobs :
                                    /\ jobs[j].document_id = d
                                    /\ jobs[j].status \in {"pending", "processing"}
              must_reject == \/ api_key = ""
                             \/ ~known
                             \/ Documents[d].document_type \notin {".pdf", ".PDF"}
                             \/ ~Documents[d].on_disk
                             \/ active
          IN  /\ must_reject <=> req.result # None
              /\ active => req.result # None /\ req.result[1].code = 400
              /\ req.result # None => UNCHANGED <<jobs, tasks, statements, line_items>>]_vars

\* A second trigger for a document whose only job is still processing has
\* just been refused.
C3_Witness ==
    /\ last_trigger.n = 2
    /\ last_trigger.result =
          Some(bad_request("A parsing job is already in progress for this document"))
    /\ DOMAIN jobs = {1}
    /\ jobs[1].document_id = last_trigger.document_id
    /\ jobs[1].status = "processing"
    /\ Len(tasks) = 1

\* A finished run of the background task whose job row exists.
Finished(t) == tasks[t].pc = "done" /\ tasks[t].job_id \in DOMAIN jobs

\* C4 as stated: when every chunk of a job yielded zero statements (its call
\* returned an empty list or raised), the job ends failed.
C4_NoStatementsFails ==
    \A t \in 1..Len(tasks) :
        (/\ Finished(t)
         /\ \A k \in 1..Len(tasks[t].all_results) :
               tasks[t].all_results[k] = JsonList(<<>>))
        => jobs[tasks[t].job_id].status = "failed"

\* The errors are page-range-tagged errors of the chunks that failed, in chunk
\* order: an increasing choice of as many chunks as there are errors.
TaggedInOrder(task) ==
    \E f \in [1..Len(task.errors) -> 1..Len(task.chunks)] :
        /\ \A a, b \in 1..Len(task.errors) : a < b => f[a] < f[b]
        /\ \A a \in 1..Len(task.errors) :
              LET tag == "Pages " \o IntStr(task.chunks[f[a]].start_page) \o "-"
                             \o IntStr(task.chunks[f[a]].end_page) \o ": "
              IN  SubSeq(task.errors[a], 1, Len(tag)) = tag

\* C5 as stated: when at least one chunk's call returned a list of statements
\* (and the database took the commit), the job ends completed, with
\* error_message null when no chunk failed and otherwise holding the
\* page-tagged error of every failed chunk in chunk order.
C5_PartialSuccessCompletes ==
    \A t \in 1..Len(tasks) :
        (/\ Finished(t)
         /\ jobs[tasks[t].job_id].error_message # Some(CommitError)
         /\ \E k \in 1..Len(tasks[t].all_results) :
               /\ tasks[t].all_results[k].json = "list"
               /\ tasks[t].all_results[k].items # <<>>)
        => /\ jobs[tasks[t].job_id].status = "completed"
           /\ TaggedInOrder(tasks[t])
           /\ jobs[tasks[t].job_id].error_message =
                 IF tasks[t].errors = <<>> THEN None
                 ELSE Some("Partial errors: " \o JoinErrors(tasks[t].errors))

\* C10 as stated: a document never has two jobs in status pending or processing.
C10_OneActiveJobPerDocument ==
    \A d \in DOMAIN Documents :
        Cardinality({j \in DOMAIN jobs :
                        /\ jobs[j].document_id = d
                        /\ jobs[j].status \in {"pending", "processing"}}) <= 1

\* Task t finishes in this step and its job goes from processing to completed.
Completes(t) ==
    /\ tasks[t].pc = "finish"
    /\ tasks'[t].pc = "done"
    /\ tasks[t].job_id \in DOMAIN jobs
    /\ jobs[tasks[t].job_id].status = "processing"
    /\ tasks[t].job_id \in DOMAIN jobs'
    /\ jobs'[tasks[t].job_id].status = "completed"

\* The statement row s and its line items in the tables are exactly what
\* run_parsing stores for the extracted statement stmt_data of document doc.
StoredAs(stmt_table, item_table, s, doc, stmt_data) ==
    LET items == GetLineItems(stmt_data)
        mine == {l \in DOMAIN item_table : item_table[l].statement_id = s}
    IN  /\ stmt_table[s] = NewStatement(doc, stmt_data.statement_type, stmt_data.period,
                                        stmt_data.source_pages)
        /\ Cardinality(mine) = Len(items)
        /\ \A i \in 1..Len(items) :
              \E l \in mine :
                 item_table[l] = NewLineItem(s, items[i].label, Some(items[i].value),
                                             items[i].sort_order)

\* C11 as stated: when a job ends completed, the document's stored statements
\* and their line items are exactly the merged statements of that run, as
\* fresh rows; nothing stored for the document before the run is left.
C11_ReplacedByMerged ==
    [][\A t \in 1..Len(tasks) :
          Completes(t) =>
             LET doc == jobs[tasks[t].job_id].document_id
                 stmts == _merge_statements([k \in 1..Len(tasks[t].all_results) |->
                                               tasks[t].all_results[k].items])
                 stored == {s \in DOMAIN statements' : statements'[s].document_id = doc}
             IN  \E f \in [1..Len(stmts) -> stored] :
                    /\ \A a, b \in 1..Len(stmts) : a # b => f[a] # f[b]
                    /\ {f[k] : k \in 1..Len(stmts)} = stored
                    /\ \A k \in 1..Len(stmts) :
                          StoredAs(statements', line_items', f[k], doc, stmts[k])]_vars

\* C12 as stated: a job row appears with status processing; the status of a
\* row only ever changes from processing to completed or from processing to
\* failed, so a completed or failed job keeps its status.
C12_StatusTransitions ==
    [][/\ \A j \in DOMAIN jobs' \ DOMAIN jobs : jobs'[j].status = "processing"
       /\ \A j \in DOMAIN jobs \cap DOMAIN jobs' :
             jobs'[j].status # jobs[j].status =>
                /\ jobs[j].status = "processing"
                /\ jobs'[j].status \in {"completed", "failed"}]_vars

\* Task t makes one chunk attempt in this step.
Attempts(t) == tasks[t].pc = "loop" /\ tasks'[t].i = tasks[t].i + 1

\* C13 as stated: completed_chunks starts at 0, goes up by exactly 1 with each
\* chunk attempt and changes in no other step, never exceeds total_chunks, and
\* equals total_chunks once the chunk loop of the job's run has finished.
C13_AttemptCounter ==
    [][/\ \A j \in DOMAIN jobs' \ DOMAIN jobs : jobs'[j].completed_chunks = 0
       /\ \A j \in DOMAIN jobs \cap DOMAIN jobs' :
             /\ jobs'[j].completed_chunks =
                   jobs[j].completed_chunks
                      + Cardinality({t \in 1..Len(tasks) :
                                        Attempts(t) /\ tasks[t].job_id = j})
             /\ jobs'[j].completed_chunks <= jobs'[j].total_chunks
       /\ \A t \in 1..Len(tasks') :
             (tasks'[t].pc \in {"finish", "done"} /\ tasks'[t].job # None
              /\ tasks'[t].job_id \in DOMAIN jobs')
             => jobs'[tasks'[t].job_id].completed_chunks
                   = jobs'[tasks'[t].job_id].total_chunks]_vars

\* Task t ends its run in this step, with the row of its job in place and the
\* commit not refused.
Ends(t) ==
    /\ tasks[t].pc = "finish"
    /\ tasks'[t].pc = "done"
    /\ tasks[t].job_id \in DOMAIN jobs'
    /\ jobs'[tasks[t].job_id].error_message # Some(CommitError)

\* C14 as stated: when one chunk of a run gave a malformed reply (text that is
\* not JSON, which makes the call raise, or JSON that is not a list of
\* statements) and another chunk gave statements, the job ends completed, the
\* statements are stored and error_message records the malformed chunk.
C14_MalformedIsLocal ==
    [][\A t \in 1..Len(tasks) :
          (/\ Ends(t)
           /\ \E k \in 1..Len(tasks[t].all_results) :
                 /\ tasks[t].all_results[k].json = "list"
                 /\ tasks[t].all_results[k].items # <<>>
           /\ \/ tasks[t].errors # <<>>
              \/ \E k \in 1..Len(tasks[t].all_results) :
                    tasks[t].all_results[k].json # "list")
          => LET id == tasks[t].job_id
             IN  /\ jobs'[id].status = "completed"
                 /\ jobs'[id].error_message # None
                 /\ \E s \in DOMAIN statements' :
                       statements'[s].document_id = jobs'[id].document_id]_vars

\* The exception that the code after the chunk loop is bound to meet in the
\* run of this task, if any: the merge of a reply that is not a list, then
\* `job` being None, then the row of `job` being gone.
BoundToRaise(task) ==
    IF task.all_results = <<>> THEN None
    ELSE IF \E k \in 1..Len(task.all_results) : task.all_results[k].json # "list"
    THEN Some("'NoneType' object is not iterable")
    ELSE IF task.job = None
    THEN Some("'NoneType' object has no attribute 'document_id'")
    ELSE IF task.job_id \notin DOMAIN jobs
    THEN Some("Instance '<ParseJob>' has been deleted, or its row is otherwise not present.")
    ELSE None

C16_LockIsOneWay ==
    [][(IsCall /\ last_call'.op \in {"review", "lock", "edit", "map", "normalize"}) =>
          /\ (last_call'.op = "lock" /\ last_call'.result.code = 200) =>
                /\ statements'[last_call'.target].locked
                /\ statements'[last_call'.target].review_status = "approved"
          /\ \A s \in DOMAIN statements :
                statements[s].locked =>
                   /\ s \in DOMAIN statements'
                   /\ statements'[s].locked
                   /\ statements'[s].review_status = "approved"]_vars

\* A review call on a locked statement has just been refused, after a mapping
\* call on it went through; the statement is still locked and approved.
C16_Witness ==
    /\ last_call.op = "review"
    /\ last_call.status = "reviewed"
    /\ last_call.result = LockedError
    /\ last_call.target \in DOMAIN statements
    /\ statements[last_call.target].locked
    /\ statements[last_call.target].review_status = "approved"
    /\ statements[last_call.target].investment_id # None

\* C17: on a statement that is not locked, a review_statement call with a
\* review_status in {pending, reviewed, approved} is accepted whatever the
\* current status is, and sets review_status, reviewer_id and review_notes to
\* what was submitted; a call with any other review_status fails with the
\* invalid-status validation error and changes no statement.
C17_AnyReviewTransition ==
    [][(IsCall /\ last_call'.op = "review") =>
          LET c == last_call'
              s == c.target
          IN  /\ (c.status \in {"pending", "reviewed", "approved"}
                  /\ s \in DOMAIN statements /\ ~statements[s].locked) =>
                    /\ c.result.code = 200
                    /\ statements' =
                          [statements EXCEPT ![s].review_status = c.status,
                                             ![s].reviewer_id = c.reviewer_id,
                                             ![s].review_notes = c.review_notes]
              /\ c.status \notin {"pending", "reviewed", "approved"} =>
                    /\ c.result = bad_request("Invalid review_status")
                    /\ statements' = statements]_vars

\* Statement 1 has just been moved to approved by a review call, is not
\* locked, and a review call that moves it back to pending would be accepted.
C17_Witness ==
    /\ last_call.op = "review"
    /\ last_call.target = 1
    /\ last_call.status = "approved"
    /\ last_call.n < MaxCalls
    /\ statements[1].review_status = "approved"
    /\ ~statements[1].locked
    /\ ENABLED (/\ ReviewStatement(1, "pending", None, None)
                /\ last_call'.result.code = 200
                /\ statements'[1].review_status = "pending")

\* C18: the audit trail is append-only: every step of the system (edit,
\* review, lock, normalization, mapping, the worker's re-parse replacement,
\* delete_financials) leaves every stored EditLog row as it was, so edit_logs
\* only grows.
C18_AuditTrailAppendOnly ==
    [][/\ Len(edit_logs') >= Len(edit_logs)
       /\ SubSeq(edit_logs', 1, Len(edit_logs)) = edit_logs]_vars

\* The rows logged for line item 1 are still stored after a re-parse has
\* completed and replaced the statement and the line items they were about.
C18_Witness ==
    /\ Len(edit_logs) = 2
    /\ edit_logs[1].line_item_id = 1
    /\ 2 \in DOMAIN jobs
    /\ jobs[2].status = "completed"
    /\ 1 \in DOMAIN line_items
    /\ line_items[1].edited_label = None

\* C19: every stored line item belongs to a statement that still exists.
C19_NoOrphanLineItems ==
    \A l \in DOMAIN line_items : line_items[l].statement_id \in DOMAIN statements

\* One step of the background run of task t (run_parsing for its job).
WorkerStep(t) ==
    /\ t <= Len(tasks)
    /\ (WorkerStart(t) \/ WorkerChunk(t) \/ WorkerFinish(t))

\* The job of task t has been created by a successful trigger and its run has
\* not started yet.
Created(t) == Len(tasks) >= t /\ tasks[t].pc = "queued"

\* The job of task t is stored with a terminal status.
Terminal(t) ==
    /\ Len(tasks) >= t
    /\ tasks[t].job_id \in DOMAIN jobs
    /\ jobs[tasks[t].job_id].status \in {"completed", "failed"}

\* C20 as stated: when every extraction call returns or raises and the
\* background worker keeps being scheduled, every job created by a successful
\* trigger eventually has status completed or failed; and a chunk whose call
\* raised is followed by the attempt of the next chunk.
C20_JobsTerminate ==
    /\ \A t \in 1..MaxTriggers : Created(t) ~> Terminal(t)
    /\ [][\A t \in 1..Len(tasks) :
             (Attempts(t) /\ tasks[t].i < Len(tasks[t].chunks)) =>
                 /\ tasks'[t].pc = "loop"
                 /\ tasks'[t].i = tasks[t].i + 1]_vars

\* C21 as stated: every EditLog row written by an accepted edit has as
\* old_value the text of the field's effective value just before the edit (the
\* edited value if one is present, else the extracted one) and as new_value
\* the text of the submitted value; so a row's old_value is the new_value of
\* the row written before it for the same field of the same line item.
C21_OldValueIsEffectiveValue ==
    [][(IsCall /\ last_call'.op = "edit" /\ last_call'.result.code = 200) =>
          LET c == last_call'
              li == line_items[c.target]
          IN  \A k \in (Len(edit_logs) + 1)..Len(edit_logs') :
                 LET row == edit_logs'[k]
                     before == {i \in 1..Len(edit_logs) :
                                  /\ edit_logs[i].line_item_id = row.line_item_id
                                  /\ edit_logs[i].field = row.field}
                 IN  /\ row.line_item_id = c.target
                     /\ row.field = "label" =>
                           /\ row.old_value = display_label(li)
                           /\ row.new_value = c.edited_label[1]
                     /\ row.field = "value" =>
                           /\ row.old_value = FloatStr(DisplayValue(li))
                           /\ row.new_value = FloatStr(c.edited_value)
                     /\ before # {} =>
                           row.old_value =
                              edit_logs[CHOOSE i \in before : \A j \in before : j <= i].new_value]_vars

\* The chunk results in the order s of the chunks, each chunk's statements in
\* the order in[c].
Reordered(results, s, in) ==
    [c \in 1..Len(results) |->
        [j \in 1..Len(results[s[c]]) |-> results[s[c]][in[c][j]]]]

\* C22 as stated: for every permutation of the chunk results and of the
\* statements inside them, _merge_statements returns the same set of
\* statements.
C22_MergeOrderIndependent ==
    merge_pc = "done" =>
        \A s \in Permutations(1..Len(all_results)) :
            \A in \in {f \in [1..Len(all_results) ->
                               UNION {Permutations(1..k) : k \in 0..MaxMergeStmts}] :
                          \A c \in 1..Len(all_results) :
                              DOMAIN f[c] = 1..Len(all_results[s[c]])} :
                LET other == _merge_statements(Reordered(all_results, s, in))
                IN  {other[k] : k \in 1..Len(other)} = {merged[k] : k \in 1..Len(merged)}

\* C23 as stated: after the normalization of a statement, every line item of
\* it has canonical_label equal to normalize_label of its edited label if one
\* is present, else of its raw label (null when nothing matches), and the
\* count returned is the number of line items for which a match was found;
\* also when the pass is repeated after labels were edited.
C23_NormalizationSetsCanonical ==
    [][(IsCall /\ last_call'.op = "normalize") =>
          LET mapped == {s \in DOMAIN statements :
                            statements[s].investment_id = Some(last_call'.target)}
              mine == {l \in DOMAIN line_items : line_items[l].statement_id \in mapped}
          IN  /\ \A l \in mine :
                    line_items'[l].canonical_label =
                        normalize_label(display_label(line_items[l]))
              /\ last_call'.result =
                    Ok(Cardinality({l \in mine :
                          normalize_label(display_label(line_items[l])) # None}))]_vars

\* C24 as stated: once a statement is locked, no step changes any field of a
\* line item of that statement for as long as the line item is stored.
C24_LockedItemsFrozen ==
    [][\A l \in DOMAIN line_items :
          (/\ line_items[l].statement_id \in DOMAIN statements
           /\ statements[line_items[l].statement_id].locked
           /\ l \in DOMAIN line_items') =>
              line_items'[l] = line_items[l]]_vars

\* C25: a line item has is_user_modified exactly when an edit call has
\* changed one of its fields, that is, when it has an EditLog row and one of
\* edited_label, edited_value is set; and an edit call that changes no field
\* of the item leaves is_user_modified as it was.
C25_ModifiedIffChanged ==
    /\ [](\A l \in DOMAIN line_items :
             line_items[l].is_user_modified <=>
                 /\ \E k \in 1..Len(edit_logs) : edit_logs[k].line_item_id = l
                 /\ (line_items[l].edited_label # None \/ line_items[l].edited_value # None))
    /\ [][(IsCall /\ last_call'.op = "edit" /\ last_call'.target \in DOMAIN line_items) =>
             LET old == line_items[last_call'.target]
                 new == line_items'[last_call'.target]
             IN  (new.edited_label = old.edited_label /\ new.edited_value = old.edited_value)
                    => new.is_user_modified = old.is_user_modified]_vars

\* Line item 1 has been changed by an edit and is marked; line item 2 has
\* just been the target of an accepted edit call that submitted nothing and is
\* not marked.
C25_Witness ==
    /\ last_call.op = "edit"
    /\ last_call.target = 2
    /\ last_call.result.code = 200
    /\ last_call.edited_label = None /\ last_call.edited_value = None
    /\ ~line_items[2].is_user_modified
    /\ line_items[1].is_user_modified
    /\ line_items[1].edited_value = Some(100)
    /\ Len(edit_logs) = 1

\* The period-to-value entries of row label in the aligned output of type t.
EntriesOf(t, label) ==
    LET rows == comparison.statement_types[t].rows
    IN  IF \E r \in 1..Len(rows) : rows[r].canonical_label = label
        THEN rows[CHOOSE r \in 1..Len(rows) : rows[r].canonical_label = label].values
        ELSE <<>>

\* C26: normalized_metrics maps each row label to the union of that label's
\* period-to-value entries over all statement types; where a label and a
\* period occur under several types, the value kept is that of the type
\* processed last, and the entries of earlier types for other periods stay.
C26_MetricsLastTypeWins ==
    align_pc = "done" =>
        LET types == DOMAIN comparison.statement_types
            nm == comparison.normalized_metrics
            rank(t) == CHOOSE k \in 1..Len(StatementTypes) : StatementTypes[k] = t
        IN  /\ DOMAIN nm =
                  UNION {{comparison.statement_types[t].rows[r].canonical_label :
                             r \in 1..Len(comparison.statement_types[t].rows)} : t \in types}
            /\ \A label \in DOMAIN nm :
                  /\ DOMAIN nm[label] = UNION {DOMAIN EntriesOf(t, label) : t \in types}
                  /\ \A p \in DOMAIN nm[label] :
                        \E t \in types :
                            /\ p \in DOMAIN EntriesOf(t, label)
                            /\ nm[label][p] = EntriesOf(t, label)[p]
                            /\ \A u \in types :
                                  p \in DOMAIN EntriesOf(u, label) => rank(u) <= rank(t)

\* "Cash" is reported for Q1 and Q2 on the balance sheet (value 1) and for Q1
\* on the income statement (value 2): Q1 holds the income statement's value
\* and Q2 the balance sheet's.
C26_Witness ==
    /\ align_pc = "done"
    /\ DOMAIN comparison.statement_types = {"balance_sheet", "income_statement"}
    /\ EntriesOf("balance_sheet", "Cash") = ("Q1 2023" :> Some(1) @@ "Q2 2023" :> Some(1))
    /\ EntriesOf("income_statement", "Cash") = ("Q1 2023" :> Some(2))
    /\ comparison.normalized_metrics =
          ("Cash" :> ("Q1 2023" :> Some(2) @@ "Q2 2023" :> Some(1)))

\* C27 as stated: when the edit calls on a line item have all completed, each
\* field holds the value submitted for it by the call that committed last.
C27_LastWriteWins ==
    \A l \in DOMAIN line_items :
        LET on == {r \in 1..Len(edits) : edits[r].lid = l}
        IN  (on # {} /\ \A r \in on : edits[r].pc = "done") =>
                LET last == edits[CHOOSE r \in on :
                                     \A q \in on : edits[q].committed <= edits[r].committed]
                IN  /\ last.edited_label # None =>
                          line_items[l].edited_label = last.edited_label
                    /\ last.edited_value # None =>
                          line_items[l].edited_value = last.edited_value

\* C29 as stated: once lock_statement has committed, no step changes a line
\* item of the locked statement or adds an EditLog row for one, also not the
\* commit of an edit call that loaded the statement before it was locked.
C29_LockHoldsAgainstInFlightEdits ==
    [][\A l \in DOMAIN line_items :
          (/\ line_items[l].statement_id \in DOMAIN statements
           /\ statements[line_items[l].statement_id].locked) =>
              /\ line_items'[l] = line_items[l]
              /\ \A k \in (Len(edit_logs) + 1)..Len(edit_logs') :
                    edit_logs'[k].line_item_id # l]_vars

\* C28: the step in which a job ends failed (every chunk failed, or the merge
\* or the persistence raised) leaves the statements and the line items as
\* they were: of a delete-and-insert that did not commit nothing is stored.
\* No earlier step of a run writes statements or line items.
C28_FailedRunChangesNothing ==
    [][/\ (\E j \in DOMAIN jobs' :
              /\ jobs'[j].status = "failed"
              /\ (j \notin DOMAIN jobs \/ jobs[j].status # "failed")) =>
             (statements' = statements /\ line_items' = line_items)
       /\ (\E t \in 1..Len(tasks) : tasks'[t].pc # tasks[t].pc /\ tasks'[t].pc # "done") =>
             (statements' = statements /\ line_items' = line_items)]_vars

\* The re-parse of document 2 extracted a statement and failed when its
\* commit was refused; statement 1 of the first parse, reviewed in the
\* meantime, and its two line items are still stored.
C28_Witness ==
    /\ 2 \in DOMAIN jobs
    /\ jobs[2].status = "failed"
    /\ jobs[2].error_message = Some(CommitError)
    /\ tasks[2].pc = "done"
    /\ tasks[2].all_results # <<>>
    /\ DOMAIN statements = {1}
    /\ statements[1].review_status = "reviewed"
    /\ DOMAIN line_items = {1, 2}

\* The run of task t has started and has not ended.
Running(t) == tasks[t].pc \in {"loop", "finish"}

\* C30 as stated: at any time at most one run_parsing execution is in
\* progress for a given document.
C30_SingleWriterPerDocument ==
    \A t, u \in 1..Len(tasks) :
        (Running(t) /\ Running(u) /\ tasks[t].document_id = tasks[u].document_id) => t = u

(***************************************************************************)
(* Specifications: one per component; the variables of the other           *)
(* components stay at their idle values.                                   *)
(***************************************************************************)

InitSpecChunk == ChunkInit /\ MergeIdle /\ NormIdle /\ AlignIdle /\ DbEmpty /\ CallIdle /\ JobIdle

SpecChunk == InitSpecChunk /\ [][ExtractChunks]_vars

InitSpecMerge == ChunkIdle /\ MergeInit /\ NormIdle /\ AlignIdle /\ DbEmpty /\ CallIdle /\ JobIdle

SpecMerge == InitSpecMerge /\ [][CollectResult \/ MergeStatements]_vars

InitSpecNormalize == ChunkIdle /\ MergeIdle /\ NormInit /\ AlignIdle /\ DbEmpty /\ CallIdle /\ JobIdle

SpecNormalize == InitSpecNormalize /\ [][NormalizeLabel]_vars

InitSpecAlign == ChunkIdle /\ MergeIdle /\ NormIdle /\ AlignInit /\ DbEmpty /\ CallIdle /\ JobIdle

SpecAlign == InitSpecAlign /\ [][AlignAddStatement \/ AlignLineItems]_vars

InitSpecCompare == InitSpecAlign

SpecCompare == InitSpecCompare /\ [][CompareAddStatement \/ BuildComparison]_vars

InitSpecReview == ChunkIdle /\ MergeIdle /\ NormIdle /\ AlignIdle /\ ReviewInit /\ JobIdle

SpecReview == InitSpecReview /\ [][ReviewNext]_vars

InitSpecConcurrent == InitSpecReview

SpecConcurrent == InitSpecConcurrent /\ [][ConcurrentNext]_vars

InitSpecJob == ChunkIdle /\ MergeIdle /\ NormIdle /\ AlignIdle /\ DbEmpty /\ CallIdle /\ JobInit

SpecJob == InitSpecJob /\ [][JobNext]_vars

InitSpecSystem == ChunkIdle /\ MergeIdle /\ NormIdle /\ AlignIdle /\ SystemInit

SpecSystem == InitSpecSystem /\ [][SystemNext]_vars

InitSpecDelete ==
    /\ ChunkIdle /\ MergeIdle /\ NormIdle /\ AlignIdle /\ DbEmpty /\ CallIdle
    /\ api_key = "sk-ant-test"
    /\ jobs = <<>>
    /\ tasks = <<>>
    /\ last_trigger = NoTrigger

SpecDelete == InitSpecDelete /\ [][DeleteNext]_vars

InitSpecSequential == InitSpecDelete

SpecSequential == InitSpecSequential /\ [][SequentialNext]_vars

\* The database of ReviewInit with statement 1 mapped to investment 1.
InitSpecLabels ==
    /\ ChunkIdle /\ MergeIdle /\ NormIdle /\ AlignIdle /\ JobIdle /\ CallIdle
    /\ statements = (1 :> [NewStatement(1, "income_statement", "Q1 2023", "1-2")
                               EXCEPT !.investment_id = Some(1)]
                     @@ 2 :> NewStatement(1, "balance_sheet", "Q1 2023", "3"))
    /\ line_items = (1 :> NewLineItem(1, "Revenue", None, 0)
                     @@ 2 :> NewLineItem(2, "Cash", Some(40), 0))
    /\ edit_logs = <<>>

SpecLabels == InitSpecLabels /\ [][LabelsNext]_vars

\* The same system under the scheduling of the background tasks: a run that
\* can take a step eventually takes it (an extraction call returns or raises,
\* FastAPI runs every queued background task).  Requests are never forced.
InitSpecDeleteFair == InitSpecDelete

SpecDeleteFair ==
    /\ InitSpecDeleteFair
    /\ [][DeleteNext]_vars
    /\ \A t \in 1..MaxTriggers : WF_vars(WorkerStep(t))

====
